---- MODULE Spec2Model ----
(***************************************************************************)
(* Block-range replay pipeline of uniV3-pool-states.                       *)
(*                                                                         *)
(*   SchedSpec   the Range Scheduler, PoolHandler (src/src/handler.rs)     *)
(*   SinkSpec    the Buffered Sink, BufferedClickhouse (src/src/db.rs)     *)
(*   ReplaySpec  one Replay Session, PoolDBInner::execute_cycle            *)
(*               (src/src/pools/fetcher.rs)                                *)
(*   CallerSpec  one height of a Block Caller, PoolCaller, over its        *)
(*               attempts (src/src/pools/fetcher.rs)                       *)
(*   TickSpec    bitmap decoding, TickFetcher::get_ticks                   *)
(*               (src/src/pools/ticks.rs)                                  *)
(*                                                                         *)
(* Each specification moves the variables of its own component and leaves  *)
(* the others at their initial values.                                     *)
(***************************************************************************)
EXTENDS Integers, Sequences, FiniteSets, TLC

(***************************************************************************)
(* Bounds of the model.                                                    *)
(***************************************************************************)
\* u64 is modelled as an unsigned integer of WordBits bits
WordBits == 3
\* start and end heights are drawn from 0..MaxHeight
MaxHeight == 2
\* at most MaxPools extractors are configured
MaxPools == 2
\* spawns the cursor makes after it wrapped below 0
MaxWrapSpawns == 1

\* messages sent on the sink's input channel
MaxMsgs == 3
\* records sent on the sink's input channel
MaxRecords == 3
\* records in one message
MaxGroup == 2
\* insert_size is drawn from 0..MaxInsertSize
MaxInsertSize == 2
\* failed attempts to flush one batch
MaxFails == 1

\* transactions in the replayed block
MaxTxs == 3
\* pools read from the pool table
MaxPoolAddrs == 2
\* transactions of the block of a Block Caller
MaxBlockTxs == 2
\* bitmap words handed to get_ticks
MaxWords == 2
\* the amounts of a swap are drawn from 1..MaxAmount
MaxAmount == 3
\* calls in one bundle of the node client
MaxCalls == 3

\* handler.rs:15 sets 15_000; the model scales the budget down so that the
\* admission test is reached by ranges of MaxHeight + 1 blocks
MAX_TASKS == 2

Modulus == 2 ^ WordBits
Heights == 0 .. (Modulus - 1)

VARIABLES
    \* ---- PoolHandler (handler.rs:17-26)
    current_block,    \* the cursor
    end_block,        \* the field end_block; PoolHandler::new stores start_block in it
    active_tasks,     \* work units charged to in-flight blocks
    futs,             \* FuturesUnordered: height -> number of join handles in it
    pools,            \* the extractors: sequence of earliest_block values
    handler_pc,       \* "spawn" | "drain" | "check" | "done" | "panicked"
    overflow_checks,  \* build profile: TRUE panics on integer overflow, FALSE wraps
    \* ---- history of the scheduler's run
    range_start,      \* start_block as given to PoolHandler::new
    range_end,        \* end_block as given to PoolHandler::new
    spawned,          \* heights a Block Caller was ever spawned for
    retried,          \* heights a Block Caller was respawned for after Ok(Err(..))
    succeeded,        \* height -> number of Ok(Ok(t)) completions drained
    join_errors       \* heights whose join handle yielded Err (task panicked or aborted)

sched_vars == <<current_block, end_block, active_tasks, futs, pools, handler_pc,
                overflow_checks, range_start, range_end, spawned, retried,
                succeeded, join_errors>>

VARIABLES
    \* ---- BufferedClickhouse (db.rs:77-84)
    rx,               \* the input channel: messages sent and not yet received
    rx_closed,        \* every sender of the channel has been dropped
    fut,              \* Option of the insert future: <<>> or <<[vals, stage, inserted]>>
    queue,            \* the pending records
    inserting,        \* the in-flight batch
    insert_size,      \* the configured batch size
    sink_done,        \* poll returned Poll::Ready(())
    \* ---- storage
    batch_rows,       \* the rows the attempts to flush the in-flight batch inserted
    \* ---- history of the sink's run
    n_msgs,           \* messages sent on the channel so far
    n_records,        \* records sent on the channel so far
    received,         \* records taken from the channel, in order
    persisted,        \* the non-empty batches whose flush succeeded, in order
    attempt_vals      \* the record lists passed to insert for the in-flight batch

sink_vars == <<rx, rx_closed, fut, queue, inserting, insert_size, sink_done,
               batch_rows, n_msgs, n_records, received, persisted, attempt_vals>>

VARIABLES
    \* ---- one Replay Session: PoolDBInner::execute_cycle (fetcher.rs:315-369)
    txs,              \* parent_block_txs with pool_txs: [outcome, touched] per transaction
    tx_index,         \* the position of the enumerate() iterator
    replay_pc,        \* "transact" | "commit" | "callback" | "done" | "failed"
    state_db,         \* the overlay: indexes of the transactions whose diff is committed
    pool_states,      \* the records the callbacks returned, in order
    \* ---- history of the session
    sim_log,          \* the simulations made: [tx, db], db the overlay simulated against
    cb_log            \* the callbacks made: [tx, db, n_sim]

replay_vars == <<txs, tx_index, replay_pc, state_db, pool_states, sim_log, cb_log>>

VARIABLES
    \* ---- one height of the Block Caller: PoolCaller (fetcher.rs:36-206)
    caller_block_number,     \* PoolCaller.block_number
    caller_pools,     \* PoolCaller.pools: [kind, addr] per extractor
    block_txs,        \* the block's transactions: [outcome, touched], touched a pool or 0
    respawned,        \* the height was spawned again after an Err
    re_executed,      \* the replay-required path: [st, data]
    decoded,          \* the decode-only path: [st, data]
    overlay,          \* the CacheDBs: 0 of the PoolDBInner, p of the session of extractor p
    session,          \* per extractor: [st, out, views] of its Replay Session
    result,           \* what execute_block returned: "none" | "ok" | "err" | "panic"
    err_height,       \* the height in the Err of execute_block
    sent,             \* the values sent on db_tx for the height
    \* ---- history of the height
    replay_results    \* the record lists the replay path returned in the attempts

caller_vars == <<caller_block_number, caller_pools, block_txs, respawned, re_executed, decoded,
                 overlay, session, result, err_height, sent, replay_results>>

VARIABLES
    \* ---- bitmap decoding: TickFetcher::get_ticks (pools/ticks.rs:75-98)
    bitmaps,          \* Vec<(i16, U256)>: [idx, map], map the set of the set bits
    tick_spacing,     \* i32
    word_pos,         \* the words the flat_map has consumed
    tick_vals,        \* vals: the tick indexes collected so far
    \* ---- the rest of TickFetcher::get_state_from_ticks (pools/ticks.rs:42-73)
    tick_queries,     \* the ticks a ticks() call was made for, in order
    tick_states,      \* the records returned
    fetch_result      \* "none" | "ok" | "err": what get_state_from_ticks returned

tick_vars == <<bitmaps, tick_spacing, word_pos, tick_vals, tick_queries, tick_states,
               fetch_result>>

VARIABLES
    \* ---- the price of a slot0 record: PoolSlot0Fetcher (slot0.rs:19-54)
    sqrt_price_x96,   \* slot0.sqrtPriceX96, a decimal numeral in groups of four digits
    price_decimals,   \* the decimals of token0 and token1
    calculated_price  \* <<>> or <<f64>>, the f64 mant * 2^exp as [mant, exp]

price_vars == <<sqrt_price_x96, price_decimals, calculated_price>>

VARIABLES
    \* ---- one decoded swap call: PoolTrade::new (types.rs:143-194)
    swap,             \* swap_call.zeroForOne, swap_return.amount0 and .amount1
    trade_tokens,     \* <<token0, token1>>, each a TokenInfo [address, decimals]
    pool_trade        \* <<>> or <<PoolTrade>>

trade_vars == <<swap, trade_tokens, pool_trade>>

VARIABLES
    \* ---- one batched read of the node client (node.rs:92-132, 156-194)
    requests,         \* the word indexes or ticks asked for, in request order
    responses,        \* per call of the bundle: "value" or "none" (no value)
    call_result       \* [st, call, pairs]: "new", "ok" with the pairs returned, "err"

node_vars == <<requests, responses, call_result>>

vars == <<sched_vars, sink_vars, replay_vars, caller_vars, tick_vars, price_vars,
          trade_vars, node_vars>>

(***************************************************************************)
(* Range Scheduler                                                         *)
(***************************************************************************)
\* the cursor moves up
WrappingSub_Add(a, b) == (a + b) % Modulus

\* wrapping u64 subtraction
WrappingSub(a, b) == (a - b + Modulus) % Modulus

RECURSIVE CountApplicable(_, _)
\* PoolCaller::new: the extractors with earliest_block <= block_number
CountApplicable(ps, block_number) ==
    IF ps = <<>> THEN 0
    ELSE (IF Head(ps) <= block_number THEN 1 ELSE 0)
         + CountApplicable(Tail(ps), block_number)

\* caller.pools.len() of the Block Caller for a height
PoolsLen(block_number) == CountApplicable(pools, block_number)

\* Extractor sets, as sequences of earliest_block in ascending order
IsSorted(ps) == \A i \in 1 .. (Len(ps) - 1) : ps[i] <= ps[i + 1]
PoolConfigs ==
    UNION { { ps \in [1 .. n -> 0 .. MaxHeight] : IsSorted(ps) } : n \in 0 .. MaxPools }

\* PoolHandler::new: the cursor starts at end_block, the field end_block holds
\* start_block, nothing is in flight.
PoolHandlerNew ==
    /\ range_start \in 0 .. MaxHeight
    /\ range_end \in 0 .. MaxHeight
    /\ current_block = range_end
    /\ end_block = range_start
    /\ active_tasks = 0
    /\ futs = [h \in Heights |-> 0]
    /\ pools \in PoolConfigs
    /\ overflow_checks \in BOOLEAN
    /\ handler_pc = "spawn"
    /\ spawned = {}
    /\ retried = {}
    /\ succeeded = [h \in Heights |-> 0]
    /\ join_errors = {}

\* the admission test looks at the budget only
AdmitSpawn_BudgetOnly == active_tasks <= MAX_TASKS

\* handler.rs:59 the admission test of the spawn branch
AdmitSpawn == end_block <= current_block /\ active_tasks <= MAX_TASKS

\* the cursor is below the configured range only after it wrapped
Wrapped == current_block > range_end
WrapSpawns == Cardinality({h \in spawned : h > range_end})

\* handler.rs:59-70 one pass through the spawn branch of the poll loop
HandlerSpawn ==
    /\ handler_pc = "spawn"
    /\ IF AdmitSpawn
       THEN /\ Wrapped => WrapSpawns < MaxWrapSpawns
            /\ active_tasks' = active_tasks + PoolsLen(current_block)
            /\ futs' = [futs EXCEPT ![current_block] = @ + 1]
            /\ spawned' = spawned \cup {current_block}
            /\ IF current_block = 0 /\ overflow_checks
               THEN \* current_block -= 1 panics: attempt to subtract with overflow
                    /\ handler_pc' = "panicked"
                    /\ UNCHANGED current_block
               ELSE /\ current_block' = WrappingSub(current_block, 1)
                    /\ handler_pc' = "drain"
       ELSE /\ handler_pc' = "drain"
            /\ UNCHANGED <<current_block, active_tasks, futs, spawned>>
    /\ UNCHANGED <<end_block, pools, overflow_checks, range_start, range_end,
                   retried, succeeded, join_errors>>

\* What the join handle of the Block Caller for a height can yield:
\*   "ok"     Ok(Ok(pools.len()))      execute_block succeeded (fetcher.rs:70)
\*   "err"    Ok(Err((height, e)))     run_block or the send failed (fetcher.rs:64-68)
\*   "panic"  Err(JoinError)           the task panicked or was aborted
\* PoolDBInner::new computes block_number - 1 (fetcher.rs:219): for height 0 it
\* panics under overflow checks.
ExecuteBlockOutcomes(block_number) ==
    IF block_number = 0 /\ overflow_checks
    THEN {"panic"}
    ELSE {"ok", "err", "panic"}

\* handler.rs:74 Ok(Ok(t)) => this.active_tasks -= t
DrainOk(b) ==
    /\ active_tasks' = active_tasks - PoolsLen(b)
    /\ futs' = [futs EXCEPT ![b] = @ - 1]
    /\ succeeded' = [succeeded EXCEPT ![b] = @ + 1]
    /\ UNCHANGED <<retried, join_errors, spawned>>

\* the new Block Caller is made for the cursor's height
RetryTarget_Cursor(b) == current_block

\* handler.rs:77-78 PoolCaller::new(.., b): the height of the Err
RetryTarget(b) == b

\* handler.rs:75-81 Ok(Err((b, e))): the join handle of b is gone and a new
\* Block Caller is pushed
DrainErr(b) ==
    /\ retried' = retried \cup {RetryTarget(b)}
    /\ futs' = [h \in Heights |->
                 futs[h] - (IF h = b THEN 1 ELSE 0)
                         + (IF h = RetryTarget(b) THEN 1 ELSE 0)]
    /\ UNCHANGED <<active_tasks, succeeded, join_errors, spawned>>

\* handler.rs:82 _ => (): the join error is ignored
DrainJoinError(b) ==
    /\ futs' = [futs EXCEPT ![b] = @ - 1]
    /\ join_errors' = join_errors \cup {b}
    /\ UNCHANGED <<active_tasks, retried, succeeded, spawned>>

\* handler.rs:72-84 the drain loop takes one completed join handle
HandlerDrain ==
    /\ handler_pc = "drain"
    /\ \E b \in Heights :
         /\ futs[b] > 0
         /\ \E outcome \in ExecuteBlockOutcomes(b) :
              \/ outcome = "ok" /\ DrainOk(b)
              \/ outcome = "err" /\ DrainErr(b)
              \/ outcome = "panic" /\ DrainJoinError(b)
    /\ UNCHANGED <<current_block, end_block, pools, handler_pc, overflow_checks,
                   range_start, range_end>>

FutsIsEmpty == \A h \in Heights : futs[h] = 0

\* handler.rs:86 the terminal test
IsDone == FutsIsEmpty /\ end_block > current_block

\* handler.rs:72, 86-97 no join handle is ready: the drain loop ends, the
\* terminal test is made, and the loop (or the next poll) starts over
HandlerCheck ==
    /\ handler_pc = "drain"
    /\ handler_pc' = IF IsDone THEN "done" ELSE "spawn"
    /\ UNCHANGED <<current_block, end_block, active_tasks, futs, pools,
                   overflow_checks, range_start, range_end, spawned, retried,
                   succeeded, join_errors>>

(***************************************************************************)
(* Buffered Sink                                                           *)
(***************************************************************************)
\* PoolData (types.rs:197-202): the three record kinds
Kinds == {"TickInfo", "Slot0", "Trade"}

\* The order of the kinds inside one message: run_block chains the replayed
\* records and then the decoded ones (fetcher.rs:77), the replayed ones in the
\* order of the extractor list, slot0 before tick-info (lib.rs:53-76).
KindRank(k) == CASE k = "Slot0" -> 1 [] k = "TickInfo" -> 2 [] k = "Trade" -> 3

\* the record lists of n records a Block Caller can send
Messages(n) ==
    { kinds \in [1 .. n -> Kinds] :
        \A i \in 1 .. (n - 1) : KindRank(kinds[i]) <= KindRank(kinds[i + 1]) }

\* BufferedClickhouse::new: nothing pending, nothing in flight, no future
BufferedClickhouseNew ==
    /\ rx = <<>>
    /\ rx_closed = FALSE
    /\ fut = <<>>
    /\ queue = <<>>
    /\ inserting = <<>>
    /\ sink_done = FALSE
    /\ batch_rows = <<>>
    /\ n_msgs = 0
    /\ n_records = 0
    /\ received = <<>>
    /\ persisted = <<>>
    /\ attempt_vals = <<>>

\* A Block Caller sends one Vec<PoolData> (fetcher.rs:66-68). A record is its
\* kind and its number in sending order.
SendMsg(kinds) ==
    /\ ~rx_closed
    /\ rx' = Append(rx, [i \in 1 .. Len(kinds) |->
                           [id |-> n_records + i, kind |-> kinds[i]]])
    /\ n_msgs' = n_msgs + 1
    /\ n_records' = n_records + Len(kinds)
    /\ UNCHANGED <<rx_closed, fut, queue, inserting, insert_size, sink_done,
                   batch_rows, received, persisted, attempt_vals>>

Send ==
    /\ n_msgs < MaxMsgs
    /\ \E n \in 0 .. MaxGroup :
         /\ n_records + n <= MaxRecords
         /\ \E kinds \in Messages(n) : SendMsg(kinds)

\* the last sender of the channel is dropped
CloseInput ==
    /\ ~rx_closed
    /\ rx_closed' = TRUE
    /\ UNCHANGED <<rx, fut, queue, inserting, insert_size, sink_done,
                   batch_rows, n_msgs, n_records, received, persisted,
                   attempt_vals>>

\* PoolData::combine_many (types.rs:205-217): the records of one kind, in order
OfKind(vals, k) == SelectSeq(vals, LAMBDA r : r.kind = k)

\* the batch is promoted and no future is kept for it
NewInsert_Dropped(vals) == <<>>

\* BufferedClickhouse::insert as a future that has not run yet (db.rs:102-106)
NewInsert(vals) == <<[vals |-> vals, stage |-> "tick_info", inserted |-> <<>>]>>

\* rx.poll_recv(cx): a message, the end of the channel, or nothing yet
PollRecv ==
    IF rx # <<>> THEN "some" ELSE IF rx_closed THEN "none" ELSE "pending"

\* the received records replace the pending ones
QueueAfterRecv_Assign == IF PollRecv = "some" THEN Head(rx) ELSE queue

\* db.rs:128-131 the queue after the receive step of poll
QueueAfterRecv == IF PollRecv = "some" THEN queue \o Head(rx) ELSE queue

\* the shutdown test looks at the pending queue only
CanShutDown_QueueOnly == queue = <<>>

\* db.rs:131 the sink completes
CanShutDown == queue = <<>> /\ inserting = <<>> /\ fut = <<>>

\* the flush is started as soon as a record is pending
FlushTrigger_NonEmpty(q, is_finished) == q # <<>> \/ is_finished

\* the flush is started by the batch size only
FlushTrigger_SizeOnly(q, is_finished) == Len(q) >= insert_size

\* db.rs:153 a flush is started
FlushTrigger(q, is_finished) == Len(q) >= insert_size \/ is_finished

\* the batch is cut at insert_size records
Promote_Chunk(q) ==
    IF Len(q) > insert_size
    THEN [batch |-> SubSeq(q, 1, insert_size), rest |-> SubSeq(q, insert_size + 1, Len(q))]
    ELSE [batch |-> q, rest |-> <<>>]

\* the oldest pending record is left in the queue
Promote_KeepOldest(q) ==
    IF q = <<>> THEN [batch |-> q, rest |-> q]
    ELSE [batch |-> Tail(q), rest |-> <<Head(q)>>]

\* db.rs:154 this.inserting = this.queue.drain(..).collect()
Promote(q) == [batch |-> q, rest |-> <<>>]

\* a retry that also takes what is pending
RetryVals_WithPending == inserting \o queue

\* db.rs:144 the record list of a retry
RetryVals == inserting

\* db.rs:123-163 BufferedClickhouse::poll
SinkPoll ==
    /\ ~sink_done
    /\ IF PollRecv = "none" /\ CanShutDown
       THEN /\ sink_done' = TRUE
            /\ UNCHANGED <<rx, fut, queue, inserting, batch_rows, received,
                           persisted, attempt_vals>>
       ELSE LET q == QueueAfterRecv
                is_finished == PollRecv = "none"
            IN  /\ rx' = IF PollRecv = "some" THEN Tail(rx) ELSE rx
                /\ received' = IF PollRecv = "some" THEN received \o Head(rx)
                               ELSE received
                /\ sink_done' = FALSE
                /\ IF fut # <<>>
                   THEN /\ queue' = q
                        /\ IF fut[1].stage = "err"
                           THEN /\ fut' = NewInsert(RetryVals)
                                /\ attempt_vals' = Append(attempt_vals, RetryVals)
                                /\ UNCHANGED <<inserting, persisted, batch_rows>>
                           ELSE IF fut[1].stage = "ok"
                           THEN /\ fut' = <<>>
                                /\ inserting' = <<>>
                                /\ persisted' = IF inserting = <<>> THEN persisted
                                                ELSE Append(persisted, inserting)
                                /\ attempt_vals' = <<>>
                                /\ batch_rows' = <<>>
                           ELSE UNCHANGED <<fut, inserting, persisted, attempt_vals,
                                            batch_rows>>
                   ELSE IF FlushTrigger(q, is_finished)
                   THEN /\ inserting' = Promote(q).batch
                        /\ queue' = Promote(q).rest
                        /\ fut' = NewInsert(Promote(q).batch)
                        /\ attempt_vals' = <<Promote(q).batch>>
                        /\ UNCHANGED <<persisted, batch_rows>>
                   ELSE /\ queue' = q
                        /\ UNCHANGED <<fut, inserting, persisted, attempt_vals,
                                       batch_rows>>
    /\ UNCHANGED <<rx_closed, insert_size, n_msgs, n_records>>

\* db.rs:108-110 the tick-info rows are inserted, or there are none
InsertTickInfoOk ==
    /\ fut # <<>> /\ fut[1].stage = "tick_info"
    /\ LET tick_info == OfKind(fut[1].vals, "TickInfo")
       IN  /\ batch_rows' = batch_rows \o tick_info
           /\ fut' = <<[fut[1] EXCEPT !.stage = "slot0",
                                      !.inserted = @ \o tick_info]>>
    /\ UNCHANGED <<rx, rx_closed, queue, inserting, insert_size, sink_done,
                   n_msgs, n_records, received, persisted, attempt_vals>>

\* a storage insert of the running attempt may fail
MayFail == Len(attempt_vals) <= MaxFails

\* db.rs:109 insert_many::<UniV3TickInfo> fails and `?` returns the error
InsertTickInfoFail ==
    /\ fut # <<>> /\ fut[1].stage = "tick_info"
    /\ OfKind(fut[1].vals, "TickInfo") # <<>>
    /\ MayFail
    /\ fut' = <<[fut[1] EXCEPT !.stage = "err"]>>
    /\ UNCHANGED <<rx, rx_closed, queue, inserting, insert_size, sink_done,
                   batch_rows, n_msgs, n_records, received, persisted,
                   attempt_vals>>

\* db.rs:112-116 the slot0 rows are inserted, or there are none; Ok(())
InsertSlot0Ok ==
    /\ fut # <<>> /\ fut[1].stage = "slot0"
    /\ LET slot0 == OfKind(fut[1].vals, "Slot0")
       IN  /\ batch_rows' = batch_rows \o slot0
           /\ fut' = <<[fut[1] EXCEPT !.stage = "ok", !.inserted = @ \o slot0]>>
    /\ UNCHANGED <<rx, rx_closed, queue, inserting, insert_size, sink_done,
                   n_msgs, n_records, received, persisted, attempt_vals>>

\* db.rs:113 insert_many::<UniV3Slot0> fails and `?` returns the error
InsertSlot0Fail ==
    /\ fut # <<>> /\ fut[1].stage = "slot0"
    /\ OfKind(fut[1].vals, "Slot0") # <<>>
    /\ MayFail
    /\ fut' = <<[fut[1] EXCEPT !.stage = "err"]>>
    /\ UNCHANGED <<rx, rx_closed, queue, inserting, insert_size, sink_done,
                   batch_rows, n_msgs, n_records, received, persisted,
                   attempt_vals>>

(***************************************************************************)
(* Replay Session                                                          *)
(***************************************************************************)
\* What eth_api.transact yields for a transaction (fetcher.rs:338-345):
\*   "success", "revert", "halt"   Ok((res, _)) with that res.result
\*   "error"                       Err(_)
Outcomes == {"success", "revert", "halt", "error"}

\* Blocks of 1..MaxTxs transactions; the caller runs a session only for a pool
\* with a non-empty touched-set (fetcher.rs:184-188)
Blocks ==
    UNION { { b \in [1 .. n -> [outcome : Outcomes, touched : BOOLEAN]] :
                \E i \in 1 .. n : b[i].touched } : n \in 1 .. MaxTxs }

\* execute_cycle is entered with a clone of the block's PoolDBInner, whose
\* overlay is a new CacheDB over the parent state (fetcher.rs:187, 226)
ExecuteCycleEnter ==
    /\ txs \in Blocks
    /\ tx_index = 0
    /\ replay_pc = "transact"
    /\ state_db = <<>>
    /\ pool_states = <<>>
    /\ sim_log = <<>>
    /\ cb_log = <<>>

\* transaction tx_index of the block (enumerate() counts from 0)
Tx(i) == txs[i + 1]

\* the iterator steps over a transaction
NextIndex_Skip(i) == i + 2

\* fetcher.rs:326-329 the iterator hands out the transactions one by one
NextIndex(i) == i + 1

\* the closure returned for transaction i: the next one is taken, or the
\* collect ends (fetcher.rs:359-364)
Advance(i) ==
    /\ tx_index' = NextIndex(i)
    /\ replay_pc' = IF NextIndex(i) >= Len(txs) THEN "done" ELSE "transact"

\* fetcher.rs:338-345 the transaction is simulated against the overlay
Transact ==
    /\ replay_pc = "transact"
    /\ tx_index < Len(txs)
    /\ sim_log' = Append(sim_log, [tx |-> tx_index, db |-> state_db])
    /\ IF Tx(tx_index).outcome = "error"
       THEN Advance(tx_index)
       ELSE replay_pc' = "commit" /\ UNCHANGED tx_index
    /\ UNCHANGED <<txs, state_db, pool_states, cb_log>>

\* the diff is dropped instead of committed
CommitDiff_Dropped(db, i) == db

\* fetcher.rs:346 self.state_db.commit(res.state)
CommitDiff(db, i) == Append(db, i)

\* the callback is due whatever the result of the simulation
CallbackDue_AnyResult(i) == Tx(i).outcome # "error" /\ Tx(i).touched

\* fetcher.rs:348-349 the callback is due for this transaction
CallbackDue(i) == Tx(i).outcome = "success" /\ Tx(i).touched

\* fetcher.rs:346-354 the diff is committed; the callback follows or not
Commit ==
    /\ replay_pc = "commit"
    /\ state_db' = CommitDiff(state_db, tx_index)
    /\ IF CallbackDue(tx_index)
       THEN replay_pc' = "callback" /\ UNCHANGED tx_index
       ELSE Advance(tx_index)
    /\ UNCHANGED <<txs, pool_states, sim_log, cb_log>>

\* the call commits its state diff to the overlay
TransactCall_Commits(db, i) == Append(db, 0 - 1 - i)

\* fetcher.rs:291-295 transact_call: let (res, _) = transact(&mut self.state_db,
\* env)?; res.state is dropped, the overlay keeps what it had
TransactCall(db, i) == db

\* fetcher.rs:350 f(&mut self, block_number, *pool_tx, tx_index as u64)
CallbackOk ==
    /\ replay_pc = "callback"
    /\ cb_log' = Append(cb_log, [tx |-> tx_index, db |-> state_db,
                                 n_sim |-> Len(sim_log)])
    /\ pool_states' = Append(pool_states, [tx_index |-> tx_index, view |-> state_db])
    /\ state_db' = TransactCall(state_db, tx_index)
    /\ Advance(tx_index)
    /\ UNCHANGED <<txs, sim_log>>

\* fetcher.rs:350 the callback returns Err and `?` ends the session
CallbackErr ==
    /\ replay_pc = "callback"
    /\ cb_log' = Append(cb_log, [tx |-> tx_index, db |-> state_db,
                                 n_sim |-> Len(sim_log)])
    /\ state_db' = TransactCall(state_db, tx_index)
    /\ replay_pc' = "failed"
    /\ UNCHANGED <<txs, tx_index, pool_states, sim_log>>

(***************************************************************************)
(* Block Caller                                                            *)
(***************************************************************************)
\* lib.rs:53-89 the extractor list: for every enabled kind, one extractor per
\* pool of the pool table, slot0 first, then tick-info, then trades
Extractors(kind, n) == [a \in 1 .. n |-> [kind |-> kind, addr |-> a]]

PoolFetchers(n, slot0, tick_info, trades) ==
    (IF slot0 THEN Extractors("Slot0", n) ELSE <<>>)
        \o (IF tick_info THEN Extractors("TickInfo", n) ELSE <<>>)
        \o (IF trades THEN Extractors("Trade", n) ELSE <<>>)

\* PoolFetcher::is_re_executed / is_decoded (trades.rs:41-46, mod.rs:19-20)
IsReExecuted(pool) == pool.kind \in {"Slot0", "TickInfo"}
IsDecoded(pool) == pool.kind = "Trade"

\* the results of the simulations (fetcher.rs:338-348): the transactions of
\* these blocks succeed; the other results are those of ReplaySpec
SimResults == {"success"}

\* the blocks a Block Caller meets: every transaction touches one pool or none
CallerBlocks(n) ==
    UNION { [1 .. k -> [outcome : SimResults, touched : 0 .. n]] : k \in 0 .. MaxBlockTxs }

ExtractorIds == 1 .. Len(caller_pools)

\* the path futures of an attempt that has not run (fetcher.rs:74-75)
NewPath == [st |-> "new", data |-> <<>>]
NewSessions == [p \in ExtractorIds |-> [st |-> "idle", out |-> <<>>, views |-> <<>>]]

\* the overlay with a diff left by an earlier attempt
NewStateDb_Stale ==
    IF replay_results # {} THEN <<[pool |-> 0, tx |-> 0]>> ELSE <<>>

\* fetcher.rs:226 CacheDB::new over the parent state: no diff
NewStateDb == <<>>

\* PoolCaller::new (fetcher.rs:44-61) and the spawn of execute_block
PoolCallerNew ==
    /\ caller_block_number \in {1, MaxHeight}
    /\ \E n \in 1 .. MaxPoolAddrs, slot0, tick_info, trades \in BOOLEAN :
         /\ caller_pools = PoolFetchers(n, slot0, tick_info, trades)
         /\ block_txs \in CallerBlocks(n)
    /\ respawned = FALSE
    /\ re_executed = NewPath
    /\ decoded = NewPath
    /\ overlay = [p \in {0} \cup ExtractorIds |-> <<>>]
    /\ session = NewSessions
    /\ result = "none"
    /\ err_height = 0
    /\ sent = <<>>
    /\ replay_results = {}

\* fetcher.rs:110-121 PoolDBInner::new and the block are fetched; an empty
\* block ends the path
ReExecuteEnter ==
    /\ result = "none"
    /\ re_executed.st = "new"
    /\ overlay' = [p \in DOMAIN overlay |-> IF p = 0 THEN NewStateDb ELSE <<>>]
    /\ IF block_txs = <<>>
       THEN /\ re_executed' = [st |-> "ok", data |-> <<>>]
            /\ replay_results' = replay_results \cup {<<>>}
       ELSE /\ re_executed' = [st |-> "run", data |-> <<>>]
            /\ UNCHANGED replay_results
    /\ UNCHANGED <<caller_block_number, caller_pools, block_txs, respawned, decoded, session,
                   result, err_height, sent>>

\* fetcher.rs:110-135 a fetch of the path returns Err
ReExecuteFetchErr ==
    /\ result = "none"
    /\ re_executed.st = "new"
    /\ re_executed' = [st |-> "err", data |-> <<>>]
    /\ UNCHANGED <<caller_block_number, caller_pools, block_txs, respawned, decoded, overlay,
                   session, result, err_height, sent, replay_results>>

\* fetcher.rs:178-182 the touched-set of a pool: the indexes of its transactions
PoolTxs(addr) == { i \in 0 .. (Len(block_txs) - 1) : block_txs[i + 1].touched = addr }

\* transaction.hash (fetcher.rs:349): it names the transaction and tells
\* nothing of its position in the block
TxHash(i) == <<"hash", i>>

\* every session works on the overlay of the PoolDBInner itself
SessionDb_Shared(p) == 0

\* fetcher.rs:187 inner.clone(): the session owns a copy of the overlay
SessionDb(p) == p

\* fetcher.rs:346 commit, with the session that committed
CommitSession(db, p, i) == Append(db, [pool |-> p, tx |-> i])

\* PoolSlot0::new and PoolTickInfo::new_with_block_and_address store the block
\* number, the hash and the index the callback is given (types.rs:36-63,
\* 90-120; slot0.rs:68-77).
\* PoolDBInner::execute_cycle (fetcher.rs:315-369) run from transaction i on:
\* every transaction is simulated against db and committed, the callback of a
\* successful transaction of the touched-set yields a record or, if fails,
\* the error that ends the session
RECURSIVE ExecuteCycle(_, _, _, _, _, _)
ExecuteCycle(p, i, db, out, views, fails) ==
    IF i >= Len(block_txs)
    THEN [st |-> "done", db |-> db, out |-> out, views |-> views]
    ELSE LET tx == block_txs[i + 1]
             seen == Append(views, db)
             db2 == CommitSession(db, p, i)
             rec == [kind |-> caller_pools[p].kind, pool |-> caller_pools[p].addr,
                     block_number |-> caller_block_number, tx_hash |-> TxHash(i),
                     tx_index |-> i, view |-> db2]
         IN  IF tx.outcome = "success" /\ tx.touched = caller_pools[p].addr
             THEN IF fails
                  THEN [st |-> "failed", db |-> db2, out |-> out, views |-> seen]
                  ELSE ExecuteCycle(p, i + 1, db2, Append(out, rec), seen, fails)
             ELSE ExecuteCycle(p, i + 1, db2, out, seen, fails)

\* fetcher.rs:177-198 the closure of re_execute_transactions for extractor p,
\* every callback returning Ok
SessionRun(p) ==
    /\ result = "none"
    /\ re_executed.st = "run"
    /\ IsReExecuted(caller_pools[p])
    /\ session[p].st = "idle"
    /\ IF PoolTxs(caller_pools[p].addr) = {}
       THEN /\ session' = [session EXCEPT ![p].st = "done"]
            /\ UNCHANGED overlay
       ELSE LET r == ExecuteCycle(p, 0, overlay[0], <<>>, <<>>, FALSE)
            IN  /\ session' = [session EXCEPT ![p] =
                                 [st |-> r.st, out |-> r.out, views |-> r.views]]
                /\ overlay' = [overlay EXCEPT ![SessionDb(p)] = r.db]
    /\ UNCHANGED <<caller_block_number, caller_pools, block_txs, respawned, re_executed,
                   decoded, result, err_height, sent, replay_results>>

\* fetcher.rs:188-199 a callback of the session of extractor p returns Err, the
\* collect of the sessions ends with it and the sessions are dropped
SessionErr(p) ==
    /\ result = "none"
    /\ re_executed.st = "run"
    /\ IsReExecuted(caller_pools[p])
    /\ session[p].st = "idle"
    /\ ExecuteCycle(p, 0, overlay[0], <<>>, <<>>, TRUE).st = "failed"
    /\ re_executed' = [st |-> "err", data |-> <<>>]
    /\ session' = NewSessions
    /\ overlay' = [q \in DOMAIN overlay |-> <<>>]
    /\ UNCHANGED <<caller_block_number, caller_pools, block_txs, respawned, decoded,
                   result, err_height, sent, replay_results>>

ReExecutedIds == { p \in ExtractorIds : IsReExecuted(caller_pools[p]) }

\* the record lists of the sessions, in the order of the extractors
RECURSIVE FlattenSessions(_)
FlattenSessions(p) ==
    IF p > Len(caller_pools) THEN <<>>
    ELSE (IF IsReExecuted(caller_pools[p]) THEN session[p].out ELSE <<>>)
             \o FlattenSessions(p + 1)

\* fetcher.rs:199-204 collect::<eyre::Result<Vec<_>>>()? and flatten, every
\* session having returned Ok
ReExecuteCollect ==
    /\ result = "none"
    /\ re_executed.st = "run"
    /\ \A p \in ReExecutedIds : session[p].st # "idle"
    /\ re_executed' = [st |-> "ok", data |-> FlattenSessions(1)]
    /\ replay_results' = replay_results \cup {FlattenSessions(1)}
    /\ UNCHANGED <<caller_block_number, caller_pools, block_txs, respawned, decoded, overlay,
                   session, result, err_height, sent>>

\* fetcher.rs:81-95 the matched calls, grouped by pool: the pools with a call
DecodeAddresses == { caller_pools[p].addr : p \in { q \in ExtractorIds : IsDecoded(caller_pools[q]) } }
GroupMapKeys == { a \in DecodeAddresses : PoolTxs(a) # {} }

\* trades.rs:48-79 the records of the calls matched to a pool: PoolTrade::new
\* is given the block number and the hash of the call's transaction
\* (trades.rs:64-72), and PoolTrade has no other field of the transaction
\* (types.rs:122-140)
RECURSIVE DecodeCalls(_, _)
DecodeCalls(addr, i) ==
    IF i >= Len(block_txs) THEN <<>>
    ELSE (IF block_txs[i + 1].touched = addr
          THEN <<[kind |-> "Trade", pool |-> addr,
                  block_number |-> caller_block_number, tx_hash |-> TxHash(i)]>>
          ELSE <<>>)
             \o DecodeCalls(addr, i + 1)

RECURSIVE FlattenDecoded(_)
FlattenDecoded(p) ==
    IF p > Len(caller_pools) THEN <<>>
    ELSE (IF IsDecoded(caller_pools[p]) THEN DecodeCalls(caller_pools[p].addr, 0)
          ELSE <<>>) \o FlattenDecoded(p + 1)

\* fetcher.rs:155 block_txs.get(&pool.pool_address()).unwrap()
UnwrapPanics == \E a \in DecodeAddresses : a \notin GroupMapKeys

\* PoolCaller::decode_block (fetcher.rs:80-107) with decode_transactions
\* (fetcher.rs:145-165)
DecodeBlock ==
    /\ result = "none"
    /\ decoded.st = "new"
    /\ \/ decoded' = [st |-> "err", data |-> <<>>]
       \/ decoded' = IF GroupMapKeys = {} THEN [st |-> "ok", data |-> <<>>]
                     ELSE IF UnwrapPanics THEN [st |-> "panic", data |-> <<>>]
                     ELSE [st |-> "ok", data |-> FlattenDecoded(1)]
    /\ UNCHANGED <<caller_block_number, caller_pools, block_txs, respawned, re_executed,
                   overlay, session, result, err_height, sent, replay_results>>

\* the attempt fails only when both paths failed
RunBlockFails_BothOnly == re_executed.st = "err" /\ decoded.st = "err"

\* fetcher.rs:74-75 tokio::try_join!(...)?: either path returned Err
RunBlockFails == re_executed.st = "err" \/ decoded.st = "err"

\* the record lists of the paths are sent one by one
Merged_PerPath(a, b) == <<a, b>>

\* fetcher.rs:77 and 66-68: one value, the replayed records then the decoded
Merged(a, b) == <<a \o b>>

\* the data of a path as run_block has it: nothing from a path that failed
PathData(path) == IF path.st = "ok" THEN path.data ELSE <<>>

\* PoolCaller::execute_block (fetcher.rs:63-71) returns, or its task panics
ExecuteBlockReturn ==
    /\ result = "none"
    /\ \/ /\ decoded.st = "panic"
          /\ result' = "panic"
          /\ UNCHANGED <<err_height, sent>>
       \/ /\ RunBlockFails
          /\ result' = "err"
          /\ err_height' = caller_block_number
          /\ UNCHANGED sent
       \/ /\ ~RunBlockFails
          /\ re_executed.st \in {"ok", "err"} /\ decoded.st \in {"ok", "err"}
          /\ sent' = sent \o Merged(PathData(re_executed), PathData(decoded))
          /\ result' = "ok"
          /\ UNCHANGED err_height
    /\ UNCHANGED <<caller_block_number, caller_pools, block_txs, respawned, re_executed,
                   decoded, overlay, session, replay_results>>

\* handler.rs:75-81 the scheduler spawns a new PoolCaller for the height of
\* the Err; the PoolCaller of the failed attempt was consumed by execute_block
\* and its overlays are dropped with it
Respawn ==
    /\ result = "err"
    /\ respawned' = TRUE
    /\ caller_block_number' = err_height
    /\ re_executed' = NewPath
    /\ decoded' = NewPath
    /\ session' = NewSessions
    /\ overlay' = [p \in DOMAIN overlay |-> <<>>]
    /\ result' = "none"
    /\ UNCHANGED <<caller_pools, block_txs, err_height, sent, replay_results>>

(***************************************************************************)
(* Bitmap decoding                                                         *)
(***************************************************************************)
\* pools/ticks.rs:20-21 (-887272_i32 >> 8) as i16 and (887272_i32 >> 8) as i16;
\* the arithmetic shift rounds down
min_word == (0 - 887272) \div 256
max_word == 887272 \div 256

\* word indexes of the range min_word..max_word (pools/ticks.rs:101), the
\* upper end excluded
WordIndexes == {min_word, 0 - 1, 0, 4, max_word - 1}

\* pools/ticks.rs:101 let range = self.min_word..self.max_word: the words
\* get_bitmaps asks for, the upper end excluded
RequestedWords == min_word .. (max_word - 1)

\* bit offsets that are set in the words
BitOffsets == {0, 10, 255}

\* tick spacings of the pools
TickSpacings == {1, 60, 200}

\* the words get_tick_bitmaps returns (fetcher.rs:254-268): for increasing
\* word indexes
BitmapLists ==
    UNION { { b \in [1 .. n -> [idx : WordIndexes, map : SUBSET BitOffsets]] :
                \A k \in 1 .. (n - 1) : b[k].idx < b[k + 1].idx } : n \in 0 .. MaxWords }

\* the multiplication binds before the addition
TickIndex_Precedence(idx, i, spacing) == idx * 256 + i * spacing

\* pools/ticks.rs:84 (idx as i32 * 256 + i) * tick_spacing
TickIndex(idx, i, spacing) == (idx * 256 + i) * spacing

\* the elements of a set of offsets in the order the range 0..256 yields them
RECURSIVE Ascending(_)
Ascending(offsets) ==
    IF offsets = {} THEN <<>>
    ELSE LET lowest == CHOOSE i \in offsets : \A j \in offsets : i <= j
         IN  <<lowest>> \o Ascending(offsets \ {lowest})

\* pools/ticks.rs:80-90 (0..256).filter_map(..): the ticks of the offsets i of
\* the range that pass the test (map & (1 << i)) != 0, which is i \in map
WordTicks(idx, map, spacing) ==
    LET passed == Ascending({ i \in 0 .. 255 : i \in map })
    IN  [k \in 1 .. Len(passed) |-> TickIndex(idx, passed[k], spacing)]

\* get_ticks is called with the bitmaps and the spacing (pools/ticks.rs:53, 75)
GetTicksEnter ==
    /\ bitmaps \in BitmapLists
    /\ tick_spacing \in TickSpacings
    /\ word_pos = 0
    /\ tick_vals = <<>>
    /\ tick_queries = <<>>
    /\ tick_states = <<>>
    /\ fetch_result = "none"

\* pools/ticks.rs:79-90 a word with a set bit
GetTicksWord ==
    /\ word_pos < Len(bitmaps)
    /\ bitmaps[word_pos + 1].map # {}
    /\ tick_vals' = tick_vals \o WordTicks(bitmaps[word_pos + 1].idx,
                                           bitmaps[word_pos + 1].map, tick_spacing)
    /\ word_pos' = word_pos + 1
    /\ UNCHANGED <<bitmaps, tick_spacing, tick_queries, tick_states, fetch_result>>

\* pools/ticks.rs:91-93 map == U256::ZERO: vec![]
GetTicksZeroWord ==
    /\ word_pos < Len(bitmaps)
    /\ bitmaps[word_pos + 1].map = {}
    /\ word_pos' = word_pos + 1
    /\ UNCHANGED <<bitmaps, tick_spacing, tick_vals, tick_queries, tick_states,
                   fetch_result>>

\* what the call ticks(tick) of the pool returns
TicksReturn(tick) == <<"ticksReturn", tick>>

\* the states are paired with the ticks in the reverse order
StateAtTicks_Reversed(ticks) ==
    [k \in 1 .. Len(ticks) |-> <<ticks[k], TicksReturn(ticks[Len(ticks) + 1 - k])>>]

\* fetcher.rs:237-252 PoolDBInner::get_state_at_ticks: a call for every tick,
\* in the order of the list, paired with its tick
StateAtTicks(ticks) == [k \in 1 .. Len(ticks) |-> <<ticks[k], TicksReturn(ticks[k])>>]

\* pools/state.rs:34-60 new_with_block_and_address: the record of a tick
PoolStateNew(state, tick, spacing) ==
    [tick |-> tick, tick_spacing |-> spacing, state |-> state]

\* get_ticks has consumed every word (pools/ticks.rs:95 collect)
GetTicksReturned == word_pos = Len(bitmaps)

\* pools/ticks.rs:48-50, 55-57 no word or no tick: Ok(Vec::new()) without a
\* call of get_state_at_ticks
ReturnNoTicks ==
    /\ fetch_result = "none"
    /\ GetTicksReturned
    /\ tick_vals = <<>>
    /\ fetch_result' = "ok"
    /\ UNCHANGED <<bitmaps, tick_spacing, word_pos, tick_vals, tick_queries, tick_states>>

\* pools/ticks.rs:59-72 every call of get_state_at_ticks succeeded: one record
\* for every pair returned
GetStateAtTicksOk ==
    /\ fetch_result = "none"
    /\ GetTicksReturned
    /\ tick_vals # <<>>
    /\ tick_queries' = tick_vals
    /\ tick_states' =
          LET states == StateAtTicks(tick_vals)
          IN  [k \in 1 .. Len(states) |->
                 PoolStateNew(states[k][2], states[k][1], tick_spacing)]
    /\ fetch_result' = "ok"
    /\ UNCHANGED <<bitmaps, tick_spacing, word_pos, tick_vals>>

\* pools/ticks.rs:59, fetcher.rs:249 the call for the n-th tick returned Err:
\* `?` ends get_state_from_ticks
GetStateAtTicksErr ==
    /\ fetch_result = "none"
    /\ GetTicksReturned
    /\ \E n \in 1 .. Len(tick_vals) :
         tick_queries' = SubSeq(tick_vals, 1, n)
    /\ fetch_result' = "err"
    /\ UNCHANGED <<bitmaps, tick_spacing, word_pos, tick_vals, tick_states>>

(***************************************************************************)
(* Exact arithmetic: malachite's Natural and Rational, and the rounding of *)
(* a Rational to f64                                                       *)
(***************************************************************************)
\* A Natural is the sequence of its limbs, the least significant first, with
\* no zero limb at the top (utils.rs:20-22 Natural::from_limbs_asc); 0 is the
\* empty sequence. The limbs are digits of base 2^12, so that a product of two
\* limbs stays a small integer.
LimbBase == 2 ^ 12

NatZero == <<>>
NatOne == <<1>>

RECURSIVE NatNormalize(_)
NatNormalize(a) ==
    IF a # <<>> /\ a[Len(a)] = 0 THEN NatNormalize(SubSeq(a, 1, Len(a) - 1)) ELSE a

RECURSIVE NatFromInt(_)
\* Natural::from of a machine integer
NatFromInt(n) == IF n = 0 THEN <<>> ELSE <<n % LimbBase>> \o NatFromInt(n \div LimbBase)

LimbHead(a) == IF a = <<>> THEN 0 ELSE Head(a)
LimbTail(a) == IF a = <<>> THEN <<>> ELSE Tail(a)

RECURSIVE NatAddCarry(_, _, _)
NatAddCarry(a, b, c) ==
    IF a = <<>> /\ b = <<>> THEN NatFromInt(c)
    ELSE LET x == LimbHead(a) + LimbHead(b) + c
         IN  <<x % LimbBase>> \o NatAddCarry(LimbTail(a), LimbTail(b), x \div LimbBase)

NatAdd(a, b) == NatAddCarry(a, b, 0)

RECURSIVE NatSubBorrow(_, _, _)
NatSubBorrow(a, b, c) ==
    IF a = <<>> THEN <<>>
    ELSE LET x == Head(a) - LimbHead(b) - c
         IN  <<x % LimbBase>> \o NatSubBorrow(Tail(a), LimbTail(b), IF x < 0 THEN 1 ELSE 0)

\* a - b for a >= b
NatSub(a, b) == NatNormalize(NatSubBorrow(a, b, 0))

RECURSIVE NatCmpFrom(_, _, _)
NatCmpFrom(a, b, i) ==
    IF i = 0 THEN 0
    ELSE IF a[i] < b[i] THEN 0 - 1
    ELSE IF a[i] > b[i] THEN 1
    ELSE NatCmpFrom(a, b, i - 1)

\* -1, 0 or 1 as a is below, equal to or above b
NatCmp(a, b) ==
    IF Len(a) < Len(b) THEN 0 - 1
    ELSE IF Len(a) > Len(b) THEN 1
    ELSE NatCmpFrom(a, b, Len(a))

RECURSIVE NatMulLimb(_, _, _)
\* a * m + c for a machine integer m below 2^18
NatMulLimb(a, m, c) ==
    IF a = <<>> THEN NatFromInt(c)
    ELSE LET x == Head(a) * m + c
         IN  <<x % LimbBase>> \o NatMulLimb(Tail(a), m, x \div LimbBase)

NatShiftLimbs(a, n) == IF a = <<>> THEN <<>> ELSE [i \in 1 .. n |-> 0] \o a

RECURSIVE NatMulLimbs(_, _)
\* a * b, limb by limb of b
NatMulLimbs(a, b) ==
    IF a = <<>> \/ b = <<>> THEN <<>>
    ELSE NatAdd(NatMulLimb(a, Head(b), 0), NatShiftLimbs(NatMulLimbs(a, Tail(b)), 1))

\* a * b, by the limbs of the shorter factor
NatMul(a, b) == IF Len(a) < Len(b) THEN NatMulLimbs(b, a) ELSE NatMulLimbs(a, b)

RECURSIVE NatPow(_, _)
\* Pow::pow of a Natural
NatPow(a, n) ==
    IF n = 0 THEN NatOne
    ELSE IF n % 2 = 0 THEN NatPow(NatMul(a, a), n \div 2)
    ELSE NatMul(a, NatPow(NatMul(a, a), n \div 2))

\* a * 2^k
NatShiftLeft(a, k) == NatShiftLimbs(NatMulLimb(a, 2 ^ (k % 12), 0), k \div 12)

RECURSIVE LimbBitLen(_)
LimbBitLen(x) == IF x = 0 THEN 0 ELSE 1 + LimbBitLen(x \div 2)

\* the number of significant bits
NatBitLen(a) == IF a = <<>> THEN 0 ELSE 12 * (Len(a) - 1) + LimbBitLen(a[Len(a)])

NatIsOdd(a) == a # <<>> /\ a[1] % 2 = 1

RECURSIVE NatFromDecimal(_, _)
\* the Natural of a decimal numeral, given as its groups of four digits, the
\* most significant first
NatFromDecimal(groups, acc) ==
    IF groups = <<>> THEN acc
    ELSE NatFromDecimal(Tail(groups), NatMulLimb(acc, 10000, Head(groups)))

\* Rational::from_naturals: the fraction num / den
RationalFromNaturals(num, den) == [num |-> num, den |-> den]

\* Rational * Rational and Rational / Rational
RationalMul(x, y) == [num |-> NatMul(x.num, y.num), den |-> NatMul(x.den, y.den)]
RationalDiv(x, y) == [num |-> NatMul(x.num, y.den), den |-> NatMul(x.den, y.num)]

\* a fraction brought to integers: num * 2^max(-e, 0) over den * 2^max(e, 0)
ScaledNum(x, e) == IF e < 0 THEN NatShiftLeft(x.num, 0 - e) ELSE x.num
ScaledDen(x, e) == IF e < 0 THEN x.den ELSE NatShiftLeft(x.den, e)

RECURSIVE DivBits(_, _, _, _)
\* the quotient bits j, j-1, .., 0 of r by d, and the remainder (q is read
\* at every step, so that TLC keeps it as a value and not as a chain of
\* pending additions)
DivBits(r, d, j, q) ==
    IF j < 0 THEN [q |-> q, r |-> r]
    ELSE LET t == NatShiftLeft(d, j)
         IN  IF Len(q) >= 0 /\ NatCmp(r, t) >= 0
             THEN DivBits(NatSub(r, t), d, j - 1, NatAdd(q, NatShiftLeft(NatOne, j)))
             ELSE DivBits(r, d, j - 1, q)

\* the binary exponent e of the f64 nearest a positive fraction before it is
\* rounded: 2^52 <= x / 2^e < 2^53
F64Exponent(x) ==
    LET e == NatBitLen(x.num) - NatBitLen(x.den) - 53
    IN  IF NatCmp(ScaledNum(x, e + 53), ScaledDen(x, e + 53)) >= 0 THEN e + 1 ELSE e

\* f64::rounding_from(x, RoundingMode::Nearest).0 for a fraction in the range
\* of the normal f64 values: the value mant * 2^exp with a mantissa of 53 bits,
\* nearest to x, ties to the even mantissa; 0 for 0
F64RoundingFrom(x) ==
    IF x.num = <<>> THEN [mant |-> NatZero, exp |-> 0]
    ELSE LET e == F64Exponent(x)
             d == ScaledDen(x, e)
             qr == DivBits(ScaledNum(x, e), d, 52, NatZero)
             twice == NatCmp(NatShiftLeft(qr.r, 1), d)
             up == twice > 0 \/ (twice = 0 /\ NatIsOdd(qr.q))
             m == IF up THEN NatAdd(qr.q, NatOne) ELSE qr.q
         IN  IF NatBitLen(m) > 53
             THEN [mant |-> NatShiftLeft(NatOne, 52), exp |-> e + 1]
             ELSE [mant |-> m, exp |-> e]

\* an f64 as the fraction it stands for, and the product of two f64 rounded
F64ToRational(f) ==
    IF f.exp < 0 THEN [num |-> f.mant, den |-> NatShiftLeft(NatOne, 0 - f.exp)]
    ELSE [num |-> NatShiftLeft(f.mant, f.exp), den |-> NatOne]
F64Mul(f, g) == F64RoundingFrom(RationalMul(F64ToRational(f), F64ToRational(g)))

(***************************************************************************)
(* Slot0 price                                                             *)
(***************************************************************************)
\* values of sqrtPriceX96, as decimal numerals in groups of four digits: 0 (a
\* pool that is not initialized), the least and the greatest square-root price
\* of a pool, 2^96, the value of the comment of slot0.rs:106 and the value
\* of the test of slot0.rs:169
SqrtPriceExample == <<12, 8492, 9393, 6372, 8110, 8785, 4617, 4551, 8480>>
SqrtPrices ==
    { <<>>,
      <<42, 9512, 8739>>,
      <<7, 9228, 1625, 1426, 4337, 5935, 4395, 336>>,
      <<12, 8832, 9390, 4784, 2038, 9134, 9063, 5333, 5981>>,
      SqrtPriceExample,
      <<1, 4614, 4670, 3485, 2101, 328, 7273, 522, 398, 8822, 3787, 2397, 341>> }

\* TokenInfo.decimals of the tokens of a pool
TokenDecimals == {6, 8, 18}

\* PoolSlot0Fetcher with its two tokens, and a value of slot0.sqrtPriceX96
PoolSlot0FetcherNew ==
    /\ sqrt_price_x96 \in SqrtPrices
    /\ price_decimals \in [token0 : TokenDecimals, token1 : TokenDecimals]
    /\ calculated_price = <<>>

\* slot0.rs:43 sqrt_price^2 over 2^192
NonAdjPrice(sqrt) == RationalFromNaturals(NatPow(sqrt, 2), NatPow(NatFromInt(2), 192))

\* slot0.rs:45-48 10^token0.decimals over 10^token1.decimals
DecimalsFactor(dec0, dec1) ==
    RationalFromNaturals(NatPow(NatFromInt(10), dec0), NatPow(NatFromInt(10), dec1))

\* the two factors are rounded to f64 and multiplied as f64
calculate_price_RoundedTwice(sqrt, dec0, dec1) ==
    F64Mul(F64RoundingFrom(NonAdjPrice(sqrt)), F64RoundingFrom(DecimalsFactor(dec0, dec1)))

\* slot0.rs:41-53 calculate_price: the product of the two fractions, rounded
\* to the nearest f64
calculate_price(sqrt, dec0, dec1) ==
    F64RoundingFrom(RationalMul(NonAdjPrice(sqrt), DecimalsFactor(dec0, dec1)))

\* slot0.rs:66 let calculated_price = self.calculate_price(slot0.sqrtPriceX96)
Slot0ExecuteBlock ==
    /\ calculated_price = <<>>
    /\ calculated_price' =
          <<calculate_price(NatFromDecimal(sqrt_price_x96, NatZero),
                            price_decimals.token0, price_decimals.token1)>>
    /\ UNCHANGED <<sqrt_price_x96, price_decimals>>

(***************************************************************************)
(* Trade records                                                           *)
(***************************************************************************)
\* the two tokens of the pool of a PoolTradeFetcher (trades.rs:22-36)
TradeTokens ==
    { <<[address |-> "token0", decimals |-> d0], [address |-> "token1", decimals |-> d1]>> :
        d0 \in {6, 18}, d1 \in {6, 18} }

\* The decoded swap calls of a pool. swap returns the changes of the pool's
\* balances: zeroForOne pays token0 into the pool, amount0 > 0 > amount1, and
\* the reverse otherwise.
SwapCalls ==
    { [zeroForOne |-> z,
       amount0 |-> IF z THEN a ELSE 0 - a,
       amount1 |-> IF z THEN 0 - b ELSE b] :
        z \in BOOLEAN, a \in 1 .. MaxAmount, b \in 1 .. MaxAmount }

\* trades.rs:58-60 a swap call of the pool has been decoded
DecodeSwap ==
    /\ swap \in SwapCalls
    /\ trade_tokens \in TradeTokens
    /\ pool_trade = <<>>

Abs(n) == IF n < 0 THEN 0 - n ELSE n

\* types.rs:155-165 zeroForOne selects token1 as token_in
TokenIn(call, token0, token1) ==
    IF call.zeroForOne
    THEN [token |-> token1, amount |-> call.amount1]
    ELSE [token |-> token0, amount |-> call.amount0]
TokenOut(call, token0, token1) ==
    IF call.zeroForOne
    THEN [token |-> token0, amount |-> call.amount0]
    ELSE [token |-> token1, amount |-> call.amount1]

\* types.rs:167-180 |in| / |out| divided by in_decimals / out_decimals, rounded
\* to the nearest f64
TradePrice(tin, tout) ==
    F64RoundingFrom(
        RationalDiv(
            RationalFromNaturals(NatFromInt(Abs(tin.amount)), NatFromInt(Abs(tout.amount))),
            RationalFromNaturals(NatFromInt(tin.token.decimals),
                                 NatFromInt(tout.token.decimals))))

\* PoolTrade::new (types.rs:143-194), the fields of the swap
PoolTradeNew ==
    /\ pool_trade = <<>>
    /\ LET tin == TokenIn(swap, trade_tokens[1], trade_tokens[2])
           tout == TokenOut(swap, trade_tokens[1], trade_tokens[2])
       IN  pool_trade' = <<[token_in |-> tin.token.address,
                            token_in_decimals |-> tin.token.decimals,
                            token_in_amount |-> tin.amount,
                            token_out |-> tout.token.address,
                            token_out_decimals |-> tout.token.decimals,
                            token_out_amount |-> tout.amount,
                            calculated_price |-> TradePrice(tin, tout)]>>
    /\ UNCHANGED <<swap, trade_tokens>>

(***************************************************************************)
(* Batched reads of the node client                                        *)
(***************************************************************************)
\* the ranges start .. start + n - 1 of n word indexes (Range<i16>,
\* node.rs:95); the ticks of get_state_at_ticks are taken from the same lists
RequestLists ==
    { [k \in 1 .. n |-> start + k - 1] : start \in (0 - 1) .. 1, n \in 0 .. MaxCalls }

\* RethDbApiClient with a bundle to read: every call of the bundle will
\* return a value or none
RethDbApiClientNew ==
    /\ requests \in RequestLists
    /\ responses \in [1 .. Len(requests) -> {"value", "none"}]
    /\ call_result = [st |-> "new", call |-> "none", pairs |-> <<>>]

\* the decoded return value of the call made for a word index or a tick
CallReturn(key) == <<"return", key>>

RECURSIVE CallManyValues(_, _)
\* node.rs:185-191 the responses of call_many in the order of the bundle,
\* filter_map keeps those that have a value
CallManyValues(reqs, resps) ==
    IF reqs = <<>> THEN <<>>
    ELSE (IF Head(resps) = "value" THEN <<CallReturn(Head(reqs))>> ELSE <<>>)
         \o CallManyValues(Tail(reqs), Tail(resps))

\* node.rs:107-110, 128-131 .into_iter().zip(words).map(|(v, t)| (t, v)): the
\* i-th value with the i-th key, up to the shorter of the two
ZipWithKeys(values, keys) ==
    LET n == IF Len(values) < Len(keys) THEN Len(values) ELSE Len(keys)
    IN  [i \in 1 .. n |-> <<keys[i], values[i]>>]

\* node.rs:92-111 get_tick_bitmaps
GetTickBitmaps ==
    /\ call_result.st = "new"
    /\ call_result' = [st |-> "ok", call |-> "tickBitmap",
                       pairs |-> ZipWithKeys(CallManyValues(requests, responses), requests)]
    /\ UNCHANGED <<requests, responses>>

\* node.rs:113-132 get_state_at_ticks
GetStateAtTicksNode ==
    /\ call_result.st = "new"
    /\ call_result' = [st |-> "ok", call |-> "ticks",
                       pairs |-> ZipWithKeys(CallManyValues(requests, responses), requests)]
    /\ UNCHANGED <<requests, responses>>

\* node.rs:185-188 call_many itself returns Err: `?` ends the read
CallManyErr ==
    /\ call_result.st = "new"
    /\ call_result' = [st |-> "err", call |-> "none", pairs |-> <<>>]
    /\ UNCHANGED <<requests, responses>>

(***************************************************************************)
(* Specifications                                                          *)
(***************************************************************************)
NodeIdle ==
    /\ requests = <<>> /\ responses = <<>>
    /\ call_result = [st |-> "new", call |-> "none", pairs |-> <<>>]

SchedIdle ==
    /\ range_start = 0 /\ range_end = 0 /\ current_block = 0 /\ end_block = 0
    /\ active_tasks = 0 /\ futs = [h \in Heights |-> 0] /\ pools = <<>>
    /\ overflow_checks = FALSE /\ handler_pc = "spawn" /\ spawned = {}
    /\ retried = {} /\ succeeded = [h \in Heights |-> 0]
    /\ join_errors = {}

SinkIdle == BufferedClickhouseNew /\ insert_size = 1

ReplayIdle ==
    /\ txs = <<>> /\ tx_index = 0 /\ replay_pc = "done" /\ state_db = <<>>
    /\ pool_states = <<>> /\ sim_log = <<>> /\ cb_log = <<>>

CallerIdle ==
    /\ caller_block_number = 1 /\ caller_pools = <<>> /\ block_txs = <<>>
    /\ respawned = FALSE
    /\ re_executed = NewPath /\ decoded = NewPath /\ overlay = [p \in {0} |-> <<>>]
    /\ session = <<>> /\ result = "ok" /\ err_height = 0 /\ sent = <<>>
    /\ replay_results = {}

TickIdle ==
    /\ bitmaps = <<>> /\ tick_spacing = 1 /\ word_pos = 0 /\ tick_vals = <<>>
    /\ tick_queries = <<>> /\ tick_states = <<>> /\ fetch_result = "none"

PriceIdle ==
    /\ sqrt_price_x96 = <<>> /\ price_decimals = [token0 |-> 6, token1 |-> 6]
    /\ calculated_price = <<>>

TradeIdle ==
    /\ swap = [zeroForOne |-> TRUE, amount0 |-> 1, amount1 |-> 0 - 1]
    /\ trade_tokens = <<[address |-> "token0", decimals |-> 6],
                        [address |-> "token1", decimals |-> 6]>>
    /\ pool_trade = <<>>

SchedInit ==
    /\ PoolHandlerNew /\ SinkIdle /\ ReplayIdle /\ CallerIdle /\ TickIdle
    /\ PriceIdle /\ TradeIdle /\ NodeIdle
SchedNext ==
    \/ HandlerSpawn /\ UNCHANGED <<sink_vars, replay_vars, caller_vars, tick_vars, price_vars, trade_vars, node_vars>>
    \/ HandlerDrain /\ UNCHANGED <<sink_vars, replay_vars, caller_vars, tick_vars, price_vars, trade_vars, node_vars>>
    \/ HandlerCheck /\ UNCHANGED <<sink_vars, replay_vars, caller_vars, tick_vars, price_vars, trade_vars, node_vars>>
SchedSpec == SchedInit /\ [][SchedNext]_vars

SinkInit ==
    /\ BufferedClickhouseNew
    /\ insert_size \in 0 .. MaxInsertSize
    /\ SchedIdle
    /\ ReplayIdle
    /\ CallerIdle
    /\ TickIdle
    /\ PriceIdle
    /\ TradeIdle /\ NodeIdle
SinkNext ==
    \/ Send /\ UNCHANGED <<sched_vars, replay_vars, caller_vars, tick_vars, price_vars, trade_vars, node_vars>>
    \/ CloseInput /\ UNCHANGED <<sched_vars, replay_vars, caller_vars, tick_vars, price_vars, trade_vars, node_vars>>
    \/ SinkPoll /\ UNCHANGED <<sched_vars, replay_vars, caller_vars, tick_vars, price_vars, trade_vars, node_vars>>
    \/ InsertTickInfoOk /\ UNCHANGED <<sched_vars, replay_vars, caller_vars, tick_vars, price_vars, trade_vars, node_vars>>
    \/ InsertTickInfoFail /\ UNCHANGED <<sched_vars, replay_vars, caller_vars, tick_vars, price_vars, trade_vars, node_vars>>
    \/ InsertSlot0Ok /\ UNCHANGED <<sched_vars, replay_vars, caller_vars, tick_vars, price_vars, trade_vars, node_vars>>
    \/ InsertSlot0Fail /\ UNCHANGED <<sched_vars, replay_vars, caller_vars, tick_vars, price_vars, trade_vars, node_vars>>
SinkSpec == SinkInit /\ [][SinkNext]_vars

ReplayInit ==
    /\ ExecuteCycleEnter /\ SchedIdle /\ SinkIdle /\ CallerIdle /\ TickIdle
    /\ PriceIdle /\ TradeIdle /\ NodeIdle
ReplayNext ==
    \/ Transact /\ UNCHANGED <<sched_vars, sink_vars, caller_vars, tick_vars, price_vars, trade_vars, node_vars>>
    \/ Commit /\ UNCHANGED <<sched_vars, sink_vars, caller_vars, tick_vars, price_vars, trade_vars, node_vars>>
    \/ CallbackOk /\ UNCHANGED <<sched_vars, sink_vars, caller_vars, tick_vars, price_vars, trade_vars, node_vars>>
    \/ CallbackErr /\ UNCHANGED <<sched_vars, sink_vars, caller_vars, tick_vars, price_vars, trade_vars, node_vars>>
ReplaySpec == ReplayInit /\ [][ReplayNext]_vars

CallerInit ==
    /\ PoolCallerNew /\ SchedIdle /\ SinkIdle /\ ReplayIdle /\ TickIdle
    /\ PriceIdle /\ TradeIdle /\ NodeIdle
CallerNext ==
    \/ ReExecuteEnter /\ UNCHANGED <<sched_vars, sink_vars, replay_vars, tick_vars, price_vars, trade_vars, node_vars>>
    \/ ReExecuteFetchErr /\ UNCHANGED <<sched_vars, sink_vars, replay_vars, tick_vars, price_vars, trade_vars, node_vars>>
    \/ (\E p \in ExtractorIds : SessionRun(p))
          /\ UNCHANGED <<sched_vars, sink_vars, replay_vars, tick_vars, price_vars, trade_vars, node_vars>>
    \/ (\E p \in ExtractorIds : SessionErr(p))
          /\ UNCHANGED <<sched_vars, sink_vars, replay_vars, tick_vars, price_vars, trade_vars, node_vars>>
    \/ ReExecuteCollect /\ UNCHANGED <<sched_vars, sink_vars, replay_vars, tick_vars, price_vars, trade_vars, node_vars>>
    \/ DecodeBlock /\ UNCHANGED <<sched_vars, sink_vars, replay_vars, tick_vars, price_vars, trade_vars, node_vars>>
    \/ ExecuteBlockReturn /\ UNCHANGED <<sched_vars, sink_vars, replay_vars, tick_vars, price_vars, trade_vars, node_vars>>
    \/ Respawn /\ UNCHANGED <<sched_vars, sink_vars, replay_vars, tick_vars, price_vars, trade_vars, node_vars>>
CallerSpec == CallerInit /\ [][CallerNext]_vars

TickInit ==
    /\ GetTicksEnter /\ SchedIdle /\ SinkIdle /\ ReplayIdle /\ CallerIdle
    /\ PriceIdle /\ TradeIdle /\ NodeIdle
TickNext ==
    \/ GetTicksWord /\ UNCHANGED <<sched_vars, sink_vars, replay_vars, caller_vars, price_vars, trade_vars, node_vars>>
    \/ GetTicksZeroWord /\ UNCHANGED <<sched_vars, sink_vars, replay_vars, caller_vars, price_vars, trade_vars, node_vars>>
    \/ ReturnNoTicks /\ UNCHANGED <<sched_vars, sink_vars, replay_vars, caller_vars, price_vars, trade_vars, node_vars>>
    \/ GetStateAtTicksOk /\ UNCHANGED <<sched_vars, sink_vars, replay_vars, caller_vars, price_vars, trade_vars, node_vars>>
    \/ GetStateAtTicksErr /\ UNCHANGED <<sched_vars, sink_vars, replay_vars, caller_vars, price_vars, trade_vars, node_vars>>
TickSpec == TickInit /\ [][TickNext]_vars

PriceInit ==
    /\ PoolSlot0FetcherNew /\ SchedIdle /\ SinkIdle /\ ReplayIdle /\ CallerIdle
    /\ TickIdle /\ TradeIdle /\ NodeIdle
PriceNext ==
    Slot0ExecuteBlock
        /\ UNCHANGED <<sched_vars, sink_vars, replay_vars, caller_vars, tick_vars, trade_vars, node_vars>>
PriceSpec == PriceInit /\ [][PriceNext]_vars

TradeInit ==
    /\ DecodeSwap /\ SchedIdle /\ SinkIdle /\ ReplayIdle /\ CallerIdle
    /\ TickIdle /\ PriceIdle /\ NodeIdle
TradeNext ==
    PoolTradeNew
        /\ UNCHANGED <<sched_vars, sink_vars, replay_vars, caller_vars, tick_vars, price_vars, node_vars>>
TradeSpec == TradeInit /\ [][TradeNext]_vars

NodeInit ==
    /\ RethDbApiClientNew /\ SchedIdle /\ SinkIdle /\ ReplayIdle /\ CallerIdle
    /\ TickIdle /\ PriceIdle /\ TradeIdle
NodeNext ==
    \/ GetTickBitmaps /\ UNCHANGED <<sched_vars, sink_vars, replay_vars, caller_vars, tick_vars, price_vars, trade_vars>>
    \/ GetStateAtTicksNode /\ UNCHANGED <<sched_vars, sink_vars, replay_vars, caller_vars, tick_vars, price_vars, trade_vars>>
    \/ CallManyErr /\ UNCHANGED <<sched_vars, sink_vars, replay_vars, caller_vars, tick_vars, price_vars, trade_vars>>
NodeSpec == NodeInit /\ [][NodeNext]_vars

\* The testable property "Sink flush correctness" of the specification: batch
\* size 3, groups of 1, 1, 2, 1 records, then the input is closed; storage
\* never fails.
Script == <<1, 1, 2, 1>>

ScriptSend ==
    /\ n_msgs < Len(Script)
    /\ \E kinds \in Messages(Script[n_msgs + 1]) : SendMsg(kinds)

ScriptClose == n_msgs = Len(Script) /\ CloseInput

ScriptInit ==
    /\ BufferedClickhouseNew
    /\ insert_size = Script[1] + Script[2] + Script[4]
    /\ SchedIdle
    /\ ReplayIdle
    /\ CallerIdle
    /\ TickIdle
    /\ PriceIdle
    /\ TradeIdle /\ NodeIdle
ScriptNext ==
    \/ ScriptSend /\ UNCHANGED <<sched_vars, replay_vars, caller_vars, tick_vars, price_vars, trade_vars, node_vars>>
    \/ ScriptClose /\ UNCHANGED <<sched_vars, replay_vars, caller_vars, tick_vars, price_vars, trade_vars, node_vars>>
    \/ SinkPoll /\ UNCHANGED <<sched_vars, replay_vars, caller_vars, tick_vars, price_vars, trade_vars, node_vars>>
    \/ InsertTickInfoOk /\ UNCHANGED <<sched_vars, replay_vars, caller_vars, tick_vars, price_vars, trade_vars, node_vars>>
    \/ InsertSlot0Ok /\ UNCHANGED <<sched_vars, replay_vars, caller_vars, tick_vars, price_vars, trade_vars, node_vars>>
ScriptSpec == ScriptInit /\ [][ScriptNext]_vars

(***************************************************************************)
(* Helpers of the properties                                               *)
(***************************************************************************)
Range(f) == { f[i] : i \in DOMAIN f }
IsInjective(f) == \A i, j \in DOMAIN f : f[i] = f[j] => i = j

RECURSIVE Flatten(_)
Flatten(ss) == IF ss = <<>> THEN <<>> ELSE Head(ss) \o Flatten(Tail(ss))

ConfiguredRange == range_start .. range_end
\* the sizes of the flushes made: those that succeeded and the one in flight
FlushSizes ==
    [i \in 1 .. Len(persisted) |-> Len(persisted[i])]
        \o (IF fut # <<>> THEN <<Len(fut[1].vals)>> ELSE <<>>)

(***************************************************************************)
(* Range Scheduler: C1, C2, C3  (SchedSpec)                                *)
(***************************************************************************)
\* C1: for start <= end and Block Caller attempts that fail only by returning
\* (height, error), no height outside [start, end] is ever spawned, and when
\* the scheduler finishes every height of [start, end] has succeeded exactly
\* once.
C1_ExactlyOnceInRange ==
    (range_start <= range_end /\ join_errors = {}) =>
        /\ spawned \subseteq ConfiguredRange
        /\ handler_pc = "done" => \A h \in ConfiguredRange : succeeded[h] = 1

\* C2: a spawned height of the range has succeeded or is in flight, however
\* its tasks ended, and the scheduler is not done while a height of the range
\* has not succeeded. Stated for ranges that start above height 0, where the
\* cursor cannot wrap.
C2_RemovedOnlyAfterSuccess ==
    range_start > 0 =>
        /\ \A h \in spawned \cap ConfiguredRange : succeeded[h] > 0 \/ futs[h] > 0
        /\ handler_pc = "done" => \A h \in ConfiguredRange : succeeded[h] > 0

\* C3: the work units held by in-flight blocks never exceed MAX_TASKS. Stated
\* for ranges that start above height 0, where the cursor cannot wrap.
C3_ActiveTasksWithinBudget == range_start > 0 => active_tasks <= MAX_TASKS

\* C18: the step that retries a height leaves the cursor, the in-flight
\* heights and the work units as they were, the retried height being in flight
\* before and after and different from the cursor's height; a retried height
\* stays in flight until it succeeds or its task panics, however often it
\* failed.
C18_RetrySameHeight ==
    /\ [](\A b \in retried : (succeeded[b] = 0 /\ b \notin join_errors) => futs[b] > 0)
    /\ [][\A b \in Heights :
            (b \in retried' /\ b \notin retried) =>
                /\ futs[b] > 0
                /\ futs' = futs
                /\ current_block' = current_block
                /\ active_tasks' = active_tasks
                /\ b # current_block]_vars

\* C18 witness: a height that failed and was retried is in flight again, out
\* of order: a lower height was spawned meanwhile and the cursor is below both.
C18_Witness ==
    \E b \in retried :
        /\ futs[b] > 0 /\ succeeded[b] = 0
        /\ handler_pc = "drain"
        /\ current_block < b - 1
        /\ (b - 1) \in spawned

(***************************************************************************)
(* Buffered Sink: C4, C5, C7, C8 (SinkSpec) and C6 (ScriptSpec)            *)
(***************************************************************************)
\* C4: every record received from the input queue is in exactly one of the
\* successfully flushed batches, the in-flight batch and the pending queue:
\* the three, in this order, make up the received records, each once.
C4_NoRecordDropped ==
    /\ received = Flatten(persisted) \o inserting \o queue
    /\ IsInjective(received)

\* C4 witness: records sit in all three places at once.
C4_Witness ==
    /\ persisted # <<>> /\ persisted[1] # <<>>
    /\ inserting # <<>>
    /\ queue # <<>>

\* C5: every attempt to flush a batch is passed the records of the first
\* respawned, in the same order, and they are the in-flight batch; what arrives
\* during the retries stays in the pending queue.
C5_RetryIdenticalBatch ==
    /\ \A k \in 1 .. Len(attempt_vals) : attempt_vals[k] = attempt_vals[1]
    /\ fut # <<>> =>
         /\ fut[1].vals = inserting
         /\ attempt_vals # <<>> /\ attempt_vals[Len(attempt_vals)] = fut[1].vals

\* C5 witness: a batch is being retried after a failure while records that
\* arrived meanwhile are pending.
C5_Witness ==
    /\ Len(attempt_vals) >= 2
    /\ fut # <<>> /\ inserting # <<>>
    /\ queue # <<>>

\* C6 as stated: the scenario ends with exactly two flushes, of sizes 3 and 2.
C6_FlushSizesThreeTwo == sink_done => FlushSizes = <<3, 2>>

\* C6 amended: the scenario ends with exactly two flushes, of sizes 4 and 1;
\* the flush started when the third group arrives takes the whole pending
\* queue.
C6_FlushSizesFourOne ==
    /\ sink_done => FlushSizes = <<4, 1>>
    /\ Len(FlushSizes) <= 2
    /\ \A i \in 1 .. Len(FlushSizes) : FlushSizes[i] = <<4, 1>>[i]

\* C6 witness: the sink completed after the four groups and the close.
C6_Witness ==
    /\ sink_done
    /\ Len(received) = 5
    /\ insert_size = 3
    /\ Len(persisted) = 2

\* C7: the sink completes only when the input is closed and drained, the
\* pending queue and the in-flight batch are empty and no flush is
\* outstanding; every record sent has then been flushed successfully.
C7_CompletesOnlyWhenDrained ==
    sink_done =>
        /\ rx_closed /\ rx = <<>>
        /\ queue = <<>> /\ inserting = <<>> /\ fut = <<>>
        /\ Len(received) = n_records
        /\ Flatten(persisted) = received

\* C7 witness: the sink completed after flushing records.
C7_Witness == sink_done /\ Len(received) >= 2 /\ Len(persisted) >= 1

\* C8: a finished flush attempt has inserted all tick-info and slot0 records
\* of its batch or none of them, and the attempts to flush one batch insert no
\* row twice.
C8_NeverPartiallyFlushed ==
    /\ (fut # <<>> /\ fut[1].stage \in {"ok", "err"}) =>
          \/ fut[1].inserted = <<>>
          \/ Range(fut[1].inserted) =
                { r \in Range(fut[1].vals) : r.kind \in {"TickInfo", "Slot0"} }
    /\ IsInjective(batch_rows)

(***************************************************************************)
(* Replay Session: C9, C10  (ReplaySpec)                                   *)
(***************************************************************************)
Committed(db, j) == \E k \in 1 .. Len(db) : db[k] = j

\* C9: the transactions are simulated in index order 0, 1, 2, ..., each once
\* and none skipped; a transaction is simulated against an overlay that holds
\* the diff of every earlier successful transaction and of no later one.
C9_SimulatedInIndexOrder ==
    /\ \A k \in 1 .. Len(sim_log) :
         /\ sim_log[k].tx = k - 1
         /\ \A j \in 0 .. (k - 2) :
              Tx(j).outcome = "success" => Committed(sim_log[k].db, j)
         /\ \A j \in Range(sim_log[k].db) : j < k - 1
    /\ replay_pc = "transact" => tx_index = Len(sim_log)
    /\ replay_pc = "done" => Len(sim_log) = Len(txs)

\* C9 witness: a block of several transactions was replayed to its end, past
\* a successful transaction.
C9_Witness ==
    /\ replay_pc = "done"
    /\ Len(txs) >= 3
    /\ Tx(0).outcome = "success" /\ Tx(1).outcome = "success"

\* C10: the callback runs once for every successful transaction of the
\* touched-set and for nothing else, right after that transaction's diff is
\* committed and before the next transaction is simulated; the overlay it
\* reads holds that diff, the diffs of the earlier successful transactions
\* and no diff of a later transaction.
C10_CallbackAfterCommit ==
    /\ \A c \in Range(cb_log) :
         /\ CallbackDue(c.tx)
         /\ c.n_sim = c.tx + 1
         /\ c.db # <<>> /\ c.db[Len(c.db)] = c.tx
         /\ \A j \in Range(c.db) : j <= c.tx
         /\ \A j \in 0 .. c.tx : Tx(j).outcome = "success" => Committed(c.db, j)
    /\ \A i, j \in DOMAIN cb_log : cb_log[i].tx = cb_log[j].tx => i = j
    /\ \A i \in 0 .. (Len(txs) - 1) :
         (CallbackDue(i) /\ (i < tx_index \/ replay_pc \in {"done", "failed"})
                         /\ (replay_pc = "failed" => i <= tx_index))
            => \E k \in DOMAIN cb_log : cb_log[k].tx = i

\* C10 witness: a callback ran for a touched transaction that followed
\* another successful one.
C10_Witness ==
    \E k \in DOMAIN cb_log :
        /\ cb_log[k].tx >= 1
        /\ Len(cb_log[k].db) >= 2
        /\ Len(pool_states) >= 1

\* a transaction whose simulation reverted or halted
Unsuccessful(i) == Tx(i).outcome \in {"revert", "halt"}

\* C11: the overlay never holds the diff of a transaction that reverted or
\* halted: neither the overlay a later transaction is simulated against, nor
\* the one a callback reads, nor the one the session ends with.
C11_RevertedDiffNotCommitted ==
    /\ \A j \in Range(state_db) : ~Unsuccessful(j)
    /\ \A k \in DOMAIN sim_log : \A j \in Range(sim_log[k].db) : ~Unsuccessful(j)
    /\ \A k \in DOMAIN cb_log : \A j \in Range(cb_log[k].db) : ~Unsuccessful(j)

\* C12: no callback runs and no record is produced for a transaction of the
\* touched-set that reverted or halted, the session does not fail at it, and
\* the step that follows its simulation moves on to the next transaction (or
\* ends the iteration) without a callback and without a record.
C12_RevertedTouchedIsAMiss ==
    /\ [](/\ \A k \in DOMAIN cb_log : ~Unsuccessful(cb_log[k].tx)
          /\ \A k \in DOMAIN pool_states : ~Unsuccessful(pool_states[k].tx_index)
          /\ replay_pc \in {"failed", "callback"} => ~Unsuccessful(tx_index))
    /\ [][(replay_pc = "commit" /\ Unsuccessful(tx_index) /\ Tx(tx_index).touched)
            => /\ tx_index' = tx_index + 1
               /\ replay_pc' = IF tx_index + 1 >= Len(txs) THEN "done" ELSE "transact"
               /\ pool_states' = pool_states
               /\ cb_log' = cb_log]_vars

\* C12 witness: the session passed a reverted transaction of the touched-set
\* and then ran the callback of a later transaction, and ended.
C12_Witness ==
    /\ replay_pc = "done"
    /\ \E i \in 0 .. (Len(txs) - 1) :
         /\ Tx(i).touched /\ Unsuccessful(i)
         /\ \E k \in DOMAIN cb_log : cb_log[k].tx > i

(***************************************************************************)
(* Block Caller: C13, C14, C15, C16, C17  (CallerSpec)                     *)
(***************************************************************************)
\* C13: every transaction of a pool's session is simulated against an overlay
\* that holds only diffs committed by that session, the first one against the
\* parent state with no diff, and the overlay of the PoolDBInner the sessions
\* are cloned from is never written.
C13_PrivateOverlays ==
    /\ \A p \in ExtractorIds :
         /\ \A k \in DOMAIN session[p].views :
              \A d \in Range(session[p].views[k]) : d.pool = p
         /\ session[p].views # <<>> => session[p].views[1] = <<>>
         /\ \A d \in Range(overlay[p]) : d.pool = p
    /\ overlay[0] = <<>>

\* C13 witness: two sessions of one attempt have both committed diffs.
C13_Witness ==
    \E p, q \in ExtractorIds :
        /\ p # q
        /\ session[p].st = "done" /\ session[q].st = "done"
        /\ overlay[p] # <<>> /\ overlay[q] # <<>>
        /\ session[p].out # <<>>

\* C14: the record lists the replay path returned in the attempts at one
\* height are identical, and a session of a later attempt starts from an
\* overlay with no diff.
C14_ReplayDeterministic ==
    /\ Cardinality(replay_results) <= 1
    /\ respawned =>
         \A p \in ExtractorIds :
             session[p].views # <<>> => session[p].views[1] = <<>>

\* C14 witness: the replay path returned records in a first attempt and
\* again in a later one.
C14_Witness ==
    /\ respawned
    /\ re_executed.st = "ok" /\ re_executed.data # <<>>
    /\ replay_results = {re_executed.data}

\* C15: when a path returned Err the attempt does not return Ok; an Err of
\* execute_block carries the height of the caller, and nothing was sent.
C15_EitherPathFailureFailsAttempt ==
    /\ (re_executed.st = "err" \/ decoded.st = "err") => result # "ok"
    /\ result = "err" => (err_height = caller_block_number /\ sent = <<>>)
    /\ sent # <<>> => (re_executed.st = "ok" /\ decoded.st = "ok")

\* C15 witness: the decode-only path failed after the replay-required path
\* had returned records.
C15_Witness ==
    /\ result = "err"
    /\ decoded.st = "err"
    /\ re_executed.st = "ok" /\ re_executed.data # <<>>

\* C16: at most one value is sent for a height, exactly one once an attempt
\* returned Ok and none while the attempts returned Err; the value is the
\* replayed records followed by the decoded ones, each record once.
C16_OneMessagePerHeight ==
    /\ Len(sent) <= 1
    /\ result = "ok" <=> Len(sent) = 1
    /\ sent # <<>> => sent[1] = re_executed.data \o decoded.data
    /\ IsInjective(Flatten(sent))

\* C16 witness: the second attempt at the height returned Ok and sent records
\* of both paths.
C16_Witness ==
    /\ respawned
    /\ result = "ok"
    /\ re_executed.data # <<>> /\ decoded.data # <<>>

\* C17: the decode-only path never aborts the attempt: it returns the records
\* of the pools with matched calls and none for the others.
C17_UnmatchedDecodePoolYieldsNothing ==
    /\ decoded.st # "panic"
    /\ result # "panic"

(***************************************************************************)
(* Bitmap decoding: C20  (TickSpec)                                        *)
(***************************************************************************)
\* the (word, bit) pairs of the set bits of the words consumed so far
SetBits ==
    { wb \in WordIndexes \X BitOffsets :
        \E k \in 1 .. word_pos : bitmaps[k].idx = wb[1] /\ wb[2] \in bitmaps[k].map }

\* the ticks decoded from the words consumed so far are exactly the values
\* (w * 256 + b) * s of the set bits b of the words w, each once, for negative,
\* zero and positive w, in the order of the words and of the bits
DecodesSetBits ==
    /\ Range(tick_vals) = { (wb[1] * 256 + wb[2]) * tick_spacing : wb \in SetBits }
    /\ Len(tick_vals) = Cardinality(SetBits)
    /\ \A i \in 1 .. (Len(tick_vals) - 1) : tick_vals[i] < tick_vals[i + 1]

\* word 4 with bit 10 alone was decoded first, with spacing 60
ExampleDecoded ==
    word_pos >= 1 /\ bitmaps[1] = [idx |-> 4, map |-> {10}] /\ tick_spacing = 60

\* C20 as stated: exactly the set bits are decoded, to (w * 256 + b) * s, and
\* w = 4, b = 10, s = 60 gives 61560.
C20_BitmapToTick61560 ==
    /\ DecodesSetBits
    /\ ExampleDecoded => tick_vals[1] = 61560

\* C20 amended: exactly the set bits are decoded, to (w * 256 + b) * s, and
\* w = 4, b = 10, s = 60 gives 62040.
C20_BitmapToTick62040 ==
    /\ DecodesSetBits
    /\ ExampleDecoded => tick_vals[1] = 62040

\* C20 witness: a negative word with two set bits and then word 4 with bit 10
\* were decoded with spacing 60.
C20_Witness ==
    /\ word_pos = 2 /\ Len(bitmaps) = 2
    /\ tick_spacing = 60
    /\ bitmaps[1].idx < 0 /\ bitmaps[1].map = {0, 255}
    /\ bitmaps[2] = [idx |-> 4, map |-> {10}]
    /\ tick_vals[3] = 62040

\* C19: the session never moves past a transaction whose simulation returned
\* an error: it ends as failed at that transaction.
C19_SimulationErrorFailsAttempt ==
    /\ \A i \in 0 .. (Len(txs) - 1) :
         (Tx(i).outcome = "error" /\ i < Len(sim_log))
            => (replay_pc = "failed" /\ tx_index = i)

(***************************************************************************)
(* Range Scheduler: C24 (SchedSpec)                                        *)
(***************************************************************************)
RECURSIVE InFlightUnits(_)
\* the work units of the join handles in futs: caller.pools.len() of each
InFlightUnits(hs) ==
    IF hs = {} THEN 0
    ELSE LET h == CHOOSE x \in hs : TRUE
         IN  futs[h] * PoolsLen(h) + InFlightUnits(hs \ {h})

\* C24: active_tasks equals the sum, over the heights in flight, of the
\* extractors applicable at the height, so it is 0 when nothing is in flight.
\* Stated for ranges that start above height 0, where the cursor cannot wrap.
C24_WorkUnitAccounting ==
    range_start > 0 => active_tasks = InFlightUnits(Heights)

(***************************************************************************)
(* Range Scheduler, polled fairly: C25 (SchedFairSpec)                     *)
(***************************************************************************)
\* handler.rs:74 the join handle of height b yields Ok(Ok(t)) and is drained
DrainSucceeds(b) == HandlerDrain /\ succeeded'[b] = succeeded[b] + 1

\* The poll loop goes on from the spawn branch to the drain loop and from the
\* drain loop to the terminal test (handler.rs:58-97; after 4096 passes poll
\* wakes itself, handler.rs:91-94), and the Block Caller of a height in flight
\* succeeds after finitely many failed attempts.
SchedFairness ==
    /\ WF_vars(HandlerSpawn /\ UNCHANGED <<sink_vars, replay_vars, caller_vars, tick_vars, price_vars, trade_vars, node_vars>>)
    /\ WF_vars(HandlerCheck /\ UNCHANGED <<sink_vars, replay_vars, caller_vars, tick_vars, price_vars, trade_vars, node_vars>>)
    /\ \A b \in Heights :
         SF_vars(DrainSucceeds(b)
                   /\ UNCHANGED <<sink_vars, replay_vars, caller_vars, tick_vars, price_vars, trade_vars, node_vars>>)

SchedFairSpec == SchedInit /\ [][SchedNext]_vars /\ SchedFairness

\* no Block Caller task panicked, and none in flight is bound to panic
CallersCanSucceed ==
    /\ join_errors = {}
    /\ \A b \in Heights : futs[b] > 0 => "ok" \in ExecuteBlockOutcomes(b)

SinkFairness ==
    /\ WF_vars(SinkPoll /\ UNCHANGED <<sched_vars, replay_vars, caller_vars, tick_vars, price_vars, trade_vars, node_vars>>)
    /\ SF_vars(InsertTickInfoOk
                 /\ UNCHANGED <<sched_vars, replay_vars, caller_vars, tick_vars, price_vars, trade_vars, node_vars>>)
    /\ SF_vars(InsertSlot0Ok
                 /\ UNCHANGED <<sched_vars, replay_vars, caller_vars, tick_vars, price_vars, trade_vars, node_vars>>)

\* the Block Callers send all but one of the MaxMsgs messages
SendBeforeLast == n_msgs + 1 < MaxMsgs /\ Send

SinkFairNext ==
    \/ SendBeforeLast /\ UNCHANGED <<sched_vars, replay_vars, caller_vars, tick_vars, price_vars, trade_vars, node_vars>>
    \/ CloseInput /\ UNCHANGED <<sched_vars, replay_vars, caller_vars, tick_vars, price_vars, trade_vars, node_vars>>
    \/ SinkPoll /\ UNCHANGED <<sched_vars, replay_vars, caller_vars, tick_vars, price_vars, trade_vars, node_vars>>
    \/ InsertTickInfoOk /\ UNCHANGED <<sched_vars, replay_vars, caller_vars, tick_vars, price_vars, trade_vars, node_vars>>
    \/ InsertTickInfoFail /\ UNCHANGED <<sched_vars, replay_vars, caller_vars, tick_vars, price_vars, trade_vars, node_vars>>
    \/ InsertSlot0Ok /\ UNCHANGED <<sched_vars, replay_vars, caller_vars, tick_vars, price_vars, trade_vars, node_vars>>
    \/ InsertSlot0Fail /\ UNCHANGED <<sched_vars, replay_vars, caller_vars, tick_vars, price_vars, trade_vars, node_vars>>
SinkFairSpec == SinkInit /\ [][SinkFairNext]_vars /\ SinkFairness

\* C26: once the input is closed the sink eventually completes, and every
\* record sent before the close is then in a batch whose flush succeeded.
C26_SinkLiveness ==
    rx_closed ~>
        (/\ sink_done
         /\ Len(received) = n_records
         /\ Flatten(persisted) = received)

\* C26 witness: the sink completed after a final flush of records that did
\* not fill a batch.
C26_Witness ==
    /\ sink_done /\ rx_closed
    /\ persisted # <<>>
    /\ Len(persisted[Len(persisted)]) < insert_size

(***************************************************************************)
(* Buffered Sink: C27, C28, C29, C30 (SinkSpec)                            *)
(***************************************************************************)
\* the records a step takes from the channel
Arrived == SubSeq(received', Len(received) + 1, Len(received'))

\* C27: there is at most one flush future, and the in-flight batch is
\* non-empty only while it exists; a step taken while a flush future exists
\* promotes no batch (the in-flight batch stays, or is cleared together with
\* the future), keeps the future on the in-flight batch, and appends the
\* records that arrive to the pending queue.
C27_OneFlushOutstanding ==
    /\ [](Len(fut) <= 1 /\ (inserting # <<>> => fut # <<>>))
    /\ [][fut # <<>> =>
            /\ inserting' = inserting \/ (inserting' = <<>> /\ fut' = <<>>)
            /\ fut' # <<>> => fut'[1].vals = inserting
            /\ queue' = queue \o Arrived]_vars

\* C27 witness: while a flush is running the pending queue has reached the
\* batch size.
C27_Witness ==
    /\ fut # <<>> /\ fut[1].stage = "slot0"
    /\ inserting # <<>>
    /\ insert_size > 0
    /\ Len(queue) >= insert_size

\* a step that finds no flush future and leaves one
FlushStarts == fut = <<>> /\ fut' # <<>>

\* C28: a flush starts only from a state without a flush future, and only
\* when the pending queue, with the records just received, has reached
\* insert_size or the channel was found closed and drained; the new future is
\* the first attempt of its batch.
C28_FlushOnlyOnTrigger ==
    [][FlushStarts =>
         /\ Len(queue \o Arrived) >= insert_size \/ (rx_closed /\ rx = <<>>)
         /\ attempt_vals = <<>> /\ Len(attempt_vals') = 1
         /\ fut'[1].stage = "tick_info"]_vars

\* C28 witness: a flush of a batch shorter than insert_size has started after
\* the close, the records having been pending without a flush before.
C28_Witness ==
    /\ fut # <<>> /\ fut[1].stage = "tick_info"
    /\ Len(attempt_vals) = 1
    /\ rx_closed /\ rx = <<>>
    /\ inserting # <<>> /\ Len(inserting) < insert_size
    /\ persisted = <<>>

\* C29: the step that starts a flush makes the in-flight batch of all records
\* pending at that moment, those just received included, in the order they
\* were received, hands exactly this batch to the insert, and leaves the
\* pending queue empty.
C29_PromotionAtomic ==
    [][FlushStarts =>
         /\ inserting' = queue \o Arrived
         /\ inserting' = SubSeq(received', Len(received') - Len(inserting') + 1,
                                Len(received'))
         /\ fut'[1].vals = inserting'
         /\ queue' = <<>>]_vars

\* C29 witness: a batch of records of more than one message has just been
\* promoted.
C29_Witness ==
    /\ fut # <<>> /\ fut[1].stage = "tick_info"
    /\ Len(attempt_vals) = 1
    /\ Len(inserting) > MaxGroup
    /\ queue = <<>>

\* C30: a flush attempt that returned Ok has passed every record of its
\* batch, of whatever kind, to a storage insert.
C30_EveryKindInserted ==
    (fut # <<>> /\ fut[1].stage = "ok") =>
        Range(fut[1].inserted) = Range(fut[1].vals)

(***************************************************************************)
(* Block Caller: C23 (CallerSpec)                                          *)
(***************************************************************************)
\* C23: every record sent for the height carries the block number and the
\* transaction index, the index being the position in the block of a
\* transaction of the record's pool.
C23_RecordsCarryPosition ==
    \A k \in DOMAIN sent :
        \A r \in Range(sent[k]) :
            /\ {"block_number", "tx_index"} \subseteq DOMAIN r
            /\ r.block_number = caller_block_number
            /\ r.tx_index \in PoolTxs(r.pool)

(***************************************************************************)
(* Slot0 price: C21 (PriceSpec)                                            *)
(***************************************************************************)
\* -1, 0 or 1 as the fraction x is below, equal to or above the fraction y
RationalCmp(x, y) == NatCmp(NatMul(x.num, y.den), NatMul(y.num, x.den))

\* (sqrtPriceX96^2 / 2^192) * 10^(token0_decimals - token1_decimals) as one
\* fraction
ExactPrice ==
    LET sqrt == NatFromDecimal(sqrt_price_x96, NatZero)
    IN  [num |-> NatMul(NatMul(sqrt, sqrt), NatPow(NatFromInt(10), price_decimals.token0)),
         den |-> NatMul(NatShiftLeft(NatOne, 192),
                        NatPow(NatFromInt(10), price_decimals.token1))]

\* f is an f64 nearest the fraction x: 0 for 0, and else a mantissa of 53
\* bits with x no further than half a unit of the last place
IsNearestF64(f, x) ==
    IF x.num = <<>> THEN f.mant = <<>>
    ELSE LET n == ScaledNum(x, f.exp)
             d == ScaledDen(x, f.exp)
             md == NatMul(f.mant, d)
             dist == IF NatCmp(md, n) >= 0 THEN NatSub(md, n) ELSE NatSub(n, md)
         IN  /\ NatBitLen(f.mant) = 53
             /\ NatCmp(NatShiftLeft(dist, 1), d) <= 0

\* f rounds to c * 10^-5 at five decimal places: (2c - 1) / 200000 <= f and
\* f < (2c + 1) / 200000
RoundsToFiveDecimals(f, c) ==
    /\ RationalCmp(F64ToRational(f),
                   [num |-> NatFromInt(2 * c - 1), den |-> NatFromInt(200000)]) >= 0
    /\ RationalCmp(F64ToRational(f),
                   [num |-> NatFromInt(2 * c + 1), den |-> NatFromInt(200000)]) < 0

\* sqrt_price_x96 = 1284929393637281108785461745518480, token0_decimals = 6,
\* token1_decimals = 18
IsPriceExample ==
    /\ sqrt_price_x96 = SqrtPriceExample
    /\ price_decimals = [token0 |-> 6, token1 |-> 18]

TradeToken(address) ==
    IF trade_tokens[1].address = address THEN trade_tokens[1] ELSE trade_tokens[2]

\* the signed change of the pool's balance of the token with the given address
TradeDelta(address) ==
    IF trade_tokens[1].address = address THEN swap.amount0 ELSE swap.amount1

\* C22: the token_in of a Trade record is the token whose signed change is
\* positive (token0 exactly when zeroForOne), its token_out the token whose
\* change is negative, and each carries its own decimals and amount.
C22_TokenInIsPaidIn ==
    pool_trade # <<>> =>
        LET t == pool_trade[1]
        IN  /\ t.token_in = (IF swap.zeroForOne THEN "token0" ELSE "token1")
            /\ t.token_out = (IF swap.zeroForOne THEN "token1" ELSE "token0")
            /\ t.token_in_amount > 0 /\ t.token_out_amount < 0
            /\ t.token_in_amount = TradeDelta(t.token_in)
            /\ t.token_out_amount = TradeDelta(t.token_out)
            /\ t.token_in_decimals = TradeToken(t.token_in).decimals
            /\ t.token_out_decimals = TradeToken(t.token_out).decimals
(***************************************************************************)
(* Range Scheduler over a range longer than the budget: C31 (BudgetSpec)   *)
(***************************************************************************)
\* Extractor sets whose earliest_block is the first height of the range or a
\* height above the range: an extractor is applicable at every height of the
\* range or at none (lib.rs:91 start_block is an option of the command line,
\* independent of the extractors)
BudgetPoolConfigs ==
    UNION { { ps \in [1 .. n -> {1, MAX_TASKS + 3}] : IsSorted(ps) } : n \in 0 .. MaxPools }

\* PoolHandler::new for the range [1, MAX_TASKS + 2], which has one height
\* more than MAX_TASKS + 1
BudgetHandlerNew ==
    /\ range_start = 1
    /\ range_end = MAX_TASKS + 2
    /\ current_block = range_end
    /\ end_block = range_start
    /\ active_tasks = 0
    /\ futs = [h \in Heights |-> 0]
    /\ pools \in BudgetPoolConfigs
    /\ overflow_checks \in BOOLEAN
    /\ handler_pc = "spawn"
    /\ spawned = {}
    /\ retried = {}
    /\ succeeded = [h \in Heights |-> 0]
    /\ join_errors = {}

BudgetInit ==
    /\ BudgetHandlerNew /\ SinkIdle /\ ReplayIdle /\ CallerIdle /\ TickIdle
    /\ PriceIdle /\ TradeIdle /\ NodeIdle
BudgetSpec == BudgetInit /\ [][SchedNext]_vars

RECURSIVE InFlightCallers(_)
\* the join handles in futs: each is a Block Caller whose attempt builds one
\* state view (fetcher.rs:110)
InFlightCallers(hs) ==
    IF hs = {} THEN 0
    ELSE LET h == CHOOSE x \in hs : TRUE
         IN  futs[h] + InFlightCallers(hs \ {h})

\* C31: the Block Callers in flight are bounded by the budget, whatever the
\* extractors: a spawn is admitted with at most MAX_TASKS units charged, a
\* unit for each Block Caller in flight at least, so there are never more than
\* MAX_TASKS + 1 of them.
C31_InFlightWithinBudget == InFlightCallers(Heights) <= MAX_TASKS + 1
(***************************************************************************)
(* Bitmap words: C32 (TickSpec)                                            *)
(***************************************************************************)
\* the tick range of a pool (TickMath.MIN_TICK and MAX_TICK, the literals of
\* pools/ticks.rs:20-21)
MinTick == 0 - 887272
MaxTick == 887272

\* usable ticks of a pool with spacing s, as multiples k * s: the least and
\* the greatest usable tick and their neighbours, and the ticks around 0 and
\* around the first word boundaries
UsableTicks(s) ==
    LET top == MaxTick \div s
    IN  { k * s : k \in {0 - top, 1 - top, 0 - 257, 0 - 256, 0 - 255, 0 - 1, 0,
                         1, 255, 256, 257, top - 1, top} }

\* the bitmap word of a usable tick: (t / s) >> 8
WordOfTick(t, s) == (t \div s) \div 256

\* C32: for the pool's spacing, the bitmap word of every usable tick of
\* [-887272, 887272] is one of the words get_bitmaps asks for.
C32_WordsCoverUsableTicks ==
    \A t \in UsableTicks(tick_spacing) :
        /\ MinTick <= t /\ t <= MaxTick
        /\ WordOfTick(t, tick_spacing) \in RequestedWords
(***************************************************************************)
(* Tick-info records: C33 (TickSpec)                                       *)
(***************************************************************************)
\* the ticks (w * 256 + b) * s of the set bits b of the words w consumed
SetBitTicks == { (wb[1] * 256 + wb[2]) * tick_spacing : wb \in SetBits }

\* C33: when get_state_from_ticks returns Ok there is exactly one record for
\* every set bit of the words, in the order of the words and of the bits,
\* each with the state of its own tick, and each tick was queried once; when
\* no bit is set it does not return Err, makes no ticks() call and returns no
\* record.
C33_OneRecordPerSetBit ==
    /\ fetch_result = "ok" =>
         /\ Len(tick_states) = Cardinality(SetBits)
         /\ { tick_states[k].tick : k \in 1 .. Len(tick_states) } = SetBitTicks
         /\ \A k \in 1 .. (Len(tick_states) - 1) :
              tick_states[k].tick < tick_states[k + 1].tick
         /\ \A k \in 1 .. Len(tick_states) :
              /\ tick_states[k].state = TicksReturn(tick_states[k].tick)
              /\ tick_states[k].tick_spacing = tick_spacing
              /\ tick_queries[k] = tick_states[k].tick
         /\ Len(tick_queries) = Len(tick_states)
    /\ (GetTicksReturned /\ SetBits = {}) =>
         /\ fetch_result # "err"
         /\ tick_queries = <<>>
         /\ tick_states = <<>>

\* C33 witness: three records were returned for a negative word with two set
\* bits and a positive word with one.
C33_Witness ==
    /\ fetch_result = "ok"
    /\ Len(bitmaps) = 2
    /\ bitmaps[1].idx < 0 /\ bitmaps[1].map = {0, 255}
    /\ bitmaps[2].idx > 0 /\ bitmaps[2].map = {10}
    /\ Len(tick_states) = 3
(***************************************************************************)
(* Range Scheduler, the order of the spawns: C34 (SchedSpec)               *)
(***************************************************************************)
\* a pass through the spawn branch that pushes a Block Caller
SpawnStep == handler_pc = "spawn" /\ futs' # futs

\* C34: the cursor starts at the end height; a spawn from the cursor pushes
\* one Block Caller, for the cursor's height, and moves the cursor down by
\* one; nothing else moves the cursor; so the heights of [start, end] are
\* spawned from the end downwards without a gap, each at most once.
C34_SpawnsDescendByOne ==
    /\ [](spawned = {} => current_block = range_end)
    /\ [](spawned \cap ConfiguredRange =
            IF Wrapped \/ handler_pc = "panicked"
            THEN ConfiguredRange
            ELSE { h \in ConfiguredRange : h > current_block })
    /\ [][SpawnStep =>
            /\ futs' = [futs EXCEPT ![current_block] = @ + 1]
            /\ spawned' = spawned \cup {current_block}
            /\ current_block \in ConfiguredRange =>
                 /\ current_block \notin spawned
                 /\ \A h \in spawned : h > current_block
            /\ current_block > 0 => current_block' = current_block - 1]_vars
    /\ [][current_block' # current_block => SpawnStep]_vars

\* C34 witness: a range of several heights has been spawned down to its
\* start height, and the cursor is one below it.
C34_Witness ==
    /\ range_start >= 1 /\ range_end > range_start
    /\ spawned = ConfiguredRange
    /\ current_block = range_start - 1
    /\ retried # {}
(***************************************************************************)
(* Range Scheduler, the cursor at height 0: C35 (SchedSpec)                *)
(***************************************************************************)
\* the Block Caller of height b computes the parent height b - 1
\* (fetcher.rs:219), which is a height only when b > 0
ParentHeightExists(b) == b > 0

\* C35: the cursor never wraps: it stays at or below the end height, the
\* scheduler does not panic on the decrement, no height outside [start, end]
\* is spawned, no Block Caller is spawned for a height without a parent
\* block, and once every height of a range that starts at 0 has succeeded and
\* nothing is in flight the scheduler is done at its next terminal test.
C35_CursorNeverWraps ==
    range_start <= range_end =>
        /\ current_block <= range_end
        /\ handler_pc # "panicked"
        /\ spawned \subseteq ConfiguredRange
        /\ \A b \in spawned : ParentHeightExists(b)
        /\ (FutsIsEmpty /\ handler_pc = "spawn" /\ ConfiguredRange \subseteq spawned)
              => ~AdmitSpawn
(***************************************************************************)
(* Range Scheduler, an empty range: C36 (SchedSpec)                        *)
(***************************************************************************)
\* the range holds no height
EmptyRange == range_start > range_end

\* C36: for start > end no Block Caller is ever spawned or in flight, the
\* cursor and the work units stay as they were made, and the first pass
\* through the poll loop ends at the terminal test with the scheduler done.
C36_EmptyRangeCompletes ==
    /\ [](EmptyRange =>
            /\ spawned = {} /\ retried = {} /\ FutsIsEmpty
            /\ active_tasks = 0
            /\ current_block = range_end
            /\ handler_pc \in {"spawn", "drain", "done"})
    /\ [][(EmptyRange /\ handler_pc = "spawn") => handler_pc' = "drain"]_vars
    /\ [][(EmptyRange /\ handler_pc = "drain") => handler_pc' = "done"]_vars

\* C36 witness: the scheduler of an empty range is done.
C36_Witness == EmptyRange /\ handler_pc = "done" /\ pools # <<>>
(***************************************************************************)
(* Buffered Sink, empty batches: C37 (SinkSpec)                            *)
(***************************************************************************)
\* C37: the record list of every flush future is non-empty, and so is the
\* in-flight batch while a flush is running.
C37_NoEmptyFlush ==
    fut # <<>> => (fut[1].vals # <<>> /\ inserting # <<>>)
(***************************************************************************)
(* Replay Session, the calls of the callbacks: C38 (ReplaySpec)            *)
(***************************************************************************)
RECURSIVE ReplayedDb(_)
\* the overlay before transaction i of a replay that runs no callback: the
\* diffs execute_cycle committed for the transactions before i
ReplayedDb(i) ==
    IF i = 0 THEN <<>>
    ELSE IF Tx(i - 1).outcome = "error" THEN ReplayedDb(i - 1)
    ELSE CommitDiff(ReplayedDb(i - 1), i - 1)

\* C38: a callback leaves the overlay as it found it, and every transaction is
\* simulated against the overlay a replay without callbacks would have.
C38_CallbackLeavesOverlay ==
    /\ [][replay_pc = "callback" => state_db' = state_db]_vars
    /\ [](\A k \in 1 .. Len(sim_log) : sim_log[k].db = ReplayedDb(sim_log[k].tx))

\* C38 witness: a transaction was simulated after the callback of an earlier
\* transaction had run.
C38_Witness ==
    /\ Len(cb_log) >= 1
    /\ Len(sim_log) >= 3
    /\ cb_log[1].tx = 0
    /\ replay_pc = "done"

(***************************************************************************)
(* C39  batched reads of the node client                                   *)
(***************************************************************************)
\* C39: get_tick_bitmaps and get_state_at_ticks return, for each word index
\* (tick) they pair a value with, the value returned by the call made for
\* that same word (tick), also when some call of the bundle returns no
\* value: a later call's result is never paired with an earlier word.
C39_ResultsAlignedWithRequests ==
    call_result.st = "ok" =>
        \A i \in 1 .. Len(call_result.pairs) :
            call_result.pairs[i][2] = CallReturn(call_result.pairs[i][1])

\* the same alignment when every call of the bundle returns a value
C39_AlignedWhenAllReturn ==
    (call_result.st = "ok" /\ \A i \in 1 .. Len(responses) : responses[i] = "value") =>
        call_result.pairs = [i \in 1 .. Len(requests) |->
                                <<requests[i], CallReturn(requests[i])>>]
====
